---- MODULE Spec2Model ----
(***************************************************************************)
(* Vault manager of thornode (x/thorchain vault manager, VaultMgr) over    *)
(* the keeper state it reads and writes: vaults, node accounts, keygens    *)
(* and the outbound queue.                                                  *)
(***************************************************************************)
EXTENDS Integers, Naturals, Sequences, FiniteSets, TLC

\* ------------------------------------------------------------------ bounds
MaxNodes == 2          \* node accounts 1..MaxNodes
MaxRotations == 2      \* keygen ceremonies that complete (fresh vault pubkeys)
MaxHeight == 7         \* last block height at which EndBlock still runs
MaxDeposits == 1       \* observed inbound transfers
MaxObserved == 2       \* observed outbound transfers
MaxSchedBlocks == 520  \* blocks of the migration-schedule scenario

\* --------------------------------------------------------------- constants
genesisBlockHeight == 1

\* secp256k1 pubkeys of the node accounts
NodeKeys == 1..MaxNodes
\* pubkey of the asgard vault a genesis file may carry
GenesisKey == MaxNodes + 1
\* pubkey produced by the k-th completed keygen
TssKey(k) == GenesisKey + k
TssKeys == {TssKey(k) : k \in 1..MaxRotations}
\* coins an observed inbound transfer may carry
DepositCoins ==
  {<<[Asset |-> "BTC.BTC", Amount |-> 7]>>,
   <<[Asset |-> "BNB.BNB", Amount |-> 10], [Asset |-> "BTC.BTC", Amount |-> 3]>>}
MigrateIntervals == {1, 2}
Versions == {"0.0.9", "0.1.0"}
BlankTxID == "0000000000000000000000000000000000000000000000000000000000000000"

VARIABLES height, version, migrateInterval, vaults, nodes, keygens, txout,
          nextKey, deposits, submitted, pre, lastOp,
          events, slashes, refunds, msgs,
          storage, sent, ch, failures, pending, worker, proc,
          memo, parsed, encoded,
          stakeArgs, stakeRes,
          stored,
          blockMeta, db,
          gas, upserted,
          stopChan, stopper, observed,
          keygenCh, kproc, added

\* the state of the chain: the keeper's stores and the block being built
chainVars == <<height, version, migrateInterval, vaults, nodes, keygens, txout,
               nextKey, deposits, submitted, pre, lastOp>>

\* the event store of the keeper, the slashes and bond refunds made, and the
\* messages the Yggdrasil handler has run on
yggVars == <<events, slashes, refunds, msgs>>

\* the signer process: its local storage of TxOuts, the broadcasts made per
\* outbound item, the channel from the block scanner, the failed sign or
\* broadcast calls so far, the TxOuts the scanner has yet to deliver, and the
\* positions of the goroutines
signerVars == <<storage, sent, ch, failures, pending, worker, proc>>

\* the memo handed to the parser and what the parser returned
memoVars == <<memo, parsed, encoded>>

stakeVars == <<stakeArgs, stakeRes>>

keygenVars == <<stored>>

\* the block meta the bitcoin client is building, and its LevelDB store
btcVars == <<blockMeta, db>>

\* the pools of an EventGas, and the gas pools upserted into it so far
gasVars == <<gas, upserted>>

\* the stop channel of the signer, the position of Stop, and the goroutines
\* that have seen the stop channel closed
stopVars == <<stopChan, stopper, observed>>

\* the keygen channel of the scanner, the position of processKeygen, and the
\* pubkeys it added to the pubkey manager
tssVars == <<keygenCh, kproc, added>>

vars == <<chainVars, yggVars, signerVars, memoVars, stakeVars, keygenVars,
          btcVars, gasVars, stopVars, tssVars>>

\* ------------------------------------------------------------ common types
\* asset.Chain: the chain an asset lives on
Chain(asset) == IF asset = "BTC.BTC" THEN "BTC" ELSE "BNB"

\* pk.GetAddress(chain): the address a pubkey controls on a chain
GetAddress(pk, chain) == [pk |-> pk, chain |-> chain]

RECURSIVE SortedSeq(_)
\* keys of the ordered keyed store, in iteration order
SortedSeq(S) ==
  IF S = {} THEN <<>>
  ELSE LET m == CHOOSE x \in S : \A y \in S : x <= y
       IN  <<m>> \o SortedSeq(S \ {m})

\* ------------------------------------------------------------------- Vault
NewVault(h, status, vtype, pk) ==
  [PubKey |-> pk, BlockHeight |-> h, StatusSince |-> h, Status |-> status,
   Type |-> vtype, Membership |-> {}, Coins |-> <<>>]

\* Vault.HasFunds: some coin of the vault has a non-zero amount
HasFunds(vault) ==
  \E i \in 1..Len(vault.Coins) : vault.Coins[i].Amount > 0

\* Vault.GetCoin: the vault's coin of an asset, amount 0 when it holds none
GetCoin(vault, asset) ==
  IF \E i \in 1..Len(vault.Coins) : vault.Coins[i].Asset = asset
  THEN vault.Coins[CHOOSE i \in 1..Len(vault.Coins) : vault.Coins[i].Asset = asset]
  ELSE [Asset |-> asset, Amount |-> 0]

\* Vault.Contains: membership test
Contains(vault, member) == member \in vault.Membership

\* Vault.UpdateStatus
UpdateStatus(vault, status, h) ==
  [vault EXCEPT !.Status = status, !.StatusSince = h]

\* Vault.AddFunds: merge a coin into the vault's coins
AddFunds(vault, asset, amt) ==
  IF \E i \in 1..Len(vault.Coins) : vault.Coins[i].Asset = asset
  THEN [vault EXCEPT !.Coins =
          [i \in 1..Len(vault.Coins) |->
             IF vault.Coins[i].Asset = asset
             THEN [Asset |-> asset, Amount |-> vault.Coins[i].Amount + amt]
             ELSE vault.Coins[i]]]
  ELSE [vault EXCEPT !.Coins = Append(vault.Coins, [Asset |-> asset, Amount |-> amt])]

\* Vault.SubFunds: subtract a coin, never below zero; the entry stays
SubFunds(vault, asset, amt) ==
  [vault EXCEPT !.Coins =
     [i \in 1..Len(vault.Coins) |->
        IF vault.Coins[i].Asset = asset
        THEN [Asset |-> asset,
              Amount |-> IF vault.Coins[i].Amount > amt
                         THEN vault.Coins[i].Amount - amt ELSE 0]
        ELSE vault.Coins[i]]]

\* ------------------------------------------------------------------ keeper
\* Keeper.GetAsgardVaults
GetAsgardVaults(vs) ==
  SortedSeq({pk \in DOMAIN vs : vs[pk].Type = "AsgardVault"})

\* Keeper.GetAsgardVaultsByStatus: pubkeys of the asgard vaults of a status
GetAsgardVaultsByStatus(vs, status) ==
  SortedSeq({pk \in DOMAIN vs :
               vs[pk].Type = "AsgardVault" /\ vs[pk].Status = status})

\* Keeper.ListActiveNodeAccounts: the Active node accounts, in store order
ListActiveNodeAccounts(nas) ==
  LET addrs == SortedSeq({a \in DOMAIN nas : nas[a].Status = "Active"})
  IN  [i \in 1..Len(addrs) |-> nas[addrs[i]]]

\* Keeper.GetNodeAccountByPubKey: store key of the account holding a pubkey
GetNodeAccountByPubKey(nas, pk) ==
  CHOOSE a \in DOMAIN nas : nas[a].PubKeySet.Secp256k1 = pk

\* NodeAccount.TryAddSignerPubKey
TryAddSignerPubKey(na, pk) ==
  [na EXCEPT !.SignerMembership = na.SignerMembership \cup {pk}]

\* Keeper.SetVault
SetVault(vs, vault) ==
  [pk \in DOMAIN vs \cup {vault.PubKey} |->
     IF pk = vault.PubKey THEN vault ELSE vs[pk]]

\* Keeper.DeleteVault
DeleteVault(vs, pk) == [k \in DOMAIN vs \ {pk} |-> vs[k]]

Digits == <<"0", "1", "2", "3", "4", "5", "6", "7", "8", "9">>

RECURSIVE FormatInt(_)
\* fmt.Sprintf("%d", n)
FormatInt(n) ==
  IF n < 0 THEN <<"-">> \o FormatInt(0 - n)
  ELSE IF n < 10 THEN <<Digits[n + 1]>>
  ELSE FormatInt(n \div 10) \o <<Digits[(n % 10) + 1]>>

\* the mutant of keygenKey: only the last digit of the height is in the key
keygenKey_LastDigit(h) == <<"keygen/", Digits[(h % 10) + 1]>>

\* the store key of the keygens of a height: the prefix and the height in
\* decimal digits
keygenKey(h) == <<"keygen/">> \o FormatInt(h)

\* Keeper.SetKeygens: the record, marshalled, is set under the key of its
\* height
SetKeygens(kgs, kg) ==
  LET key == keygenKey(kg.Height)
      buf == <<kg.Height, kg.Keygens>>
  IN [k \in DOMAIN kgs \cup {key} |-> IF k = key THEN buf ELSE kgs[k]]

\* NewKeygens
NewKeygens(h) == [Height |-> h, Keygens |-> <<>>]

\* Keeper.GetKeygens: an empty record for the height when the store has
\* nothing under the key of the height, else what is there, unmarshalled
GetKeygens(kgs, h) ==
  LET key == keygenKey(h)
  IN IF key \notin DOMAIN kgs THEN NewKeygens(h)
     ELSE [Height |-> kgs[key][1], Keygens |-> kgs[key][2]]

\* ------------------------------------------------------------- txout store
\* key of a TxOutItem
TxOutKey(toi) == <<toi.InHash, toi.ToAddress, toi.Coin.Asset>>

\* VersionedTxOutStore.GetTxOutStore: a store exists from version 0.1.0 on
HasTxOutStore(ver) == ver # "0.0.9"

\* TxOutStore.TryAddTxOutItem: an item whose amount is zero is not enqueued,
\* nor is one whose key matches an item that is still pending
TryAddTxOutItem(store, h, toi) ==
  IF toi.Coin.Amount = 0 THEN store
  ELSE IF \E i \in 1..Len(store) :
            store[i].OutHash = "" /\ TxOutKey(store[i].Item) = TxOutKey(toi)
       THEN store
       ELSE Append(store, [Height |-> h, Item |-> toi, OutHash |-> ""])

RECURSIVE AddAll(_, _, _, _)
\* the items of one EndBlock, submitted one after the other
AddAll(store, h, tois, i) ==
  IF i > Len(tois) THEN store
  ELSE AddAll(TryAddTxOutItem(store, h, tois[i]), h, tois, i + 1)

\* --------------------------------------------------------------- VaultMgr
\* a keygen trigger that makes one group per account
TriggerKeygen_PerNode(kgs, h, nas) ==
  SetKeygens(kgs, [NewKeygens(h) EXCEPT !.Keygens =
                     [i \in 1..Len(nas) |-> <<nas[i].PubKeySet.Secp256k1>>]])

\* VaultMgr.TriggerKeygen: one group holding the pubkey of every account
TriggerKeygen(kgs, h, nas) ==
  LET keygen == [i \in 1..Len(nas) |-> nas[i].PubKeySet.Secp256k1]
  IN  SetKeygens(kgs, [NewKeygens(h) EXCEPT !.Keygens = <<keygen>>])

\* a genesis setup that leaves the single node out of the vault's membership
processGenesisSetup_NoMember(vs, nas, kgs, h) ==
  LET active == ListActiveNodeAccounts(nas)
      ok == [vaults |-> vs, keygens |-> kgs, err |-> "nil"]
  IN  IF h # genesisBlockHeight THEN ok
      ELSE IF Len(GetAsgardVaults(vs)) > 0 THEN ok
      ELSE IF Len(active) = 0
           THEN [ok EXCEPT !.err = "no active accounts,cannot proceed"]
      ELSE IF Len(active) = 1
           THEN [ok EXCEPT !.vaults =
                   SetVault(vs, NewVault(0, "ActiveVault", "AsgardVault",
                                         active[1].PubKeySet.Secp256k1))]
      ELSE [ok EXCEPT !.keygens =
              SetKeygens(kgs, [NewKeygens(h) EXCEPT !.Keygens =
                 <<[i \in 1..Len(active) |-> active[i].PubKeySet.Secp256k1]>>])]

\* VaultMgr.processGenesisSetup
processGenesisSetup(vs, nas, kgs, h) ==
  LET active == ListActiveNodeAccounts(nas)
      ok == [vaults |-> vs, keygens |-> kgs, err |-> "nil"]
  IN  IF h # genesisBlockHeight THEN ok
      ELSE IF Len(GetAsgardVaults(vs)) > 0 THEN ok
      ELSE IF Len(active) = 0
           THEN [ok EXCEPT !.err = "no active accounts,cannot proceed"]
      ELSE IF Len(active) = 1
           THEN LET pk == active[1].PubKeySet.Secp256k1
                    vault == [NewVault(0, "ActiveVault", "AsgardVault", pk)
                                EXCEPT !.Membership = {pk}]
                IN  [ok EXCEPT !.vaults = SetVault(vs, vault)]
      ELSE [ok EXCEPT !.keygens = TriggerKeygen(kgs, h, active)]

\* a migration that runs in every block
IsMigrationBlock_Always(h, vault, interval) == TRUE

\* EndBlock, line 106: a vault migrates in the blocks that are a whole
\* number of intervals after its status change
IsMigrationBlock(h, vault, interval) ==
  (h - vault.StatusSince) % interval = 0

\* a round count that starts at zero
Nth_FromZero(h, vault, interval) == (h - vault.StatusSince) \div interval

\* EndBlock, line 128: the nth time migration txs are sent from the vault
Nth(h, vault, interval) == (h - vault.StatusSince) \div interval + 1

\* an amount that keeps growing by a fifth after the fifth round
MigrateAmount_NoCap(amount, nth) == (amount * nth) \div 5

\* EndBlock, lines 133-142: amount of a coin to move in round nth
MigrateAmount(amount, nth) ==
  IF nth < 5 THEN (amount * nth) \div 5 ELSE amount

RECURSIVE LeastCoinVault(_, _, _, _, _)
\* EndBlock, lines 112-119: scan of the active vaults for the least amount
LeastCoinVault(vs, active, asset, i, pk) ==
  IF i > Len(active) THEN pk
  ELSE IF GetCoin(vs[pk], asset).Amount > GetCoin(vs[active[i]], asset).Amount
       THEN LeastCoinVault(vs, active, asset, i + 1, active[i])
       ELSE LeastCoinVault(vs, active, asset, i + 1, pk)

\* a receiver that is always the first active vault
PickReceiver_First(vs, active, asset) == active[1]

\* EndBlock, lines 109-119: the receiver of a coin
PickReceiver(vs, active, asset) ==
  LeastCoinVault(vs, active, asset, 1, active[1])

\* EndBlock, lines 121-154: the outbound item for one coin of a vault
MigrateItem(vs, active, h, interval, vault, coin) ==
  [Chain |-> Chain(coin.Asset),
   InHash |-> BlankTxID,
   ToAddress |-> GetAddress(PickReceiver(vs, active, coin.Asset), Chain(coin.Asset)),
   VaultPubKey |-> vault.PubKey,
   Coin |-> [Asset |-> coin.Asset,
             Amount |-> MigrateAmount(coin.Amount, Nth(h, vault, interval))],
   Memo |-> <<"m", "i", "g", "r", "a", "t", "e">>]

\* EndBlock, lines 105-160: the items submitted for one vault with funds
MigrateVault(vs, active, h, interval, vault) ==
  IF IsMigrationBlock(h, vault, interval)
  THEN [i \in 1..Len(vault.Coins) |->
          MigrateItem(vs, active, h, interval, vault, vault.Coins[i])]
  ELSE <<>>

\* a loop that never deletes a vault
IsDeletable_Never(vault) == FALSE

\* a loop that deletes a vault whatever it holds
IsDeletable_Always(vault) == TRUE

\* EndBlock, line 96: a retiring vault is deleted when it has no funds
IsDeletable(vault) == ~HasFunds(vault)

RECURSIVE RetiringLoop(_, _, _, _, _, _, _)
\* EndBlock, lines 95-161: the loop over the retiring vaults; vs0 is the
\* keeper state the vault lists were read from
RetiringLoop(vs0, acc, retiring, i, active, h, interval) ==
  IF i > Len(retiring) THEN acc
  ELSE LET vault == vs0[retiring[i]]
       IN  IF IsDeletable(vault)
           THEN RetiringLoop(vs0,
                  [acc EXCEPT !.vaults = DeleteVault(acc.vaults, vault.PubKey)],
                  retiring, i + 1, active, h, interval)
           ELSE RetiringLoop(vs0,
                  [acc EXCEPT !.submitted =
                     acc.submitted \o MigrateVault(vs0, active, h, interval, vault)],
                  retiring, i + 1, active, h, interval)

\* a migration that goes on without an Active vault, the retiring vaults
\* being the receivers
MigrateFunds_NoGuard(vs, store, h, interval, ver) ==
  LET retiring == GetAsgardVaultsByStatus(vs, "RetiringVault")
      active == GetAsgardVaultsByStatus(vs, "ActiveVault")
      same == [vaults |-> vs, txout |-> store, submitted |-> <<>>, err |-> "nil"]
  IN  IF Len(active \o retiring) = 0 THEN same
      ELSE IF ~HasTxOutStore(ver) THEN [same EXCEPT !.err = "errBadVersion"]
      ELSE LET r == RetiringLoop(vs, same, retiring, 1, active \o retiring, h, interval)
           IN  [r EXCEPT !.txout = AddAll(store, h, r.submitted, 1)]

\* VaultMgr.EndBlock, lines 74-163: the block after genesis
MigrateFunds(vs, store, h, interval, ver) ==
  LET retiring == GetAsgardVaultsByStatus(vs, "RetiringVault")
      active == GetAsgardVaultsByStatus(vs, "ActiveVault")
      same == [vaults |-> vs, txout |-> store, submitted |-> <<>>, err |-> "nil"]
  IN  IF Len(active) = 0 THEN same
      ELSE IF ~HasTxOutStore(ver) THEN [same EXCEPT !.err = "errBadVersion"]
      ELSE LET r == RetiringLoop(vs, same, retiring, 1, active, h, interval)
           IN  [r EXCEPT !.txout = AddAll(store, h, r.submitted, 1)]

\* a rotation that retires every active vault
RetireConflicting_All(vs, vault, h) ==
  [pk \in DOMAIN vs |->
     IF vs[pk].Type = "AsgardVault" /\ vs[pk].Status = "ActiveVault"
     THEN UpdateStatus(vs[pk], "RetiringVault", h)
     ELSE vs[pk]]

\* a rotation that retires no vault
RetireConflicting_None(vs, vault, h) == vs

\* VaultMgr.RotateVault, lines 183-198: the active vaults that share a
\* member with the new vault retire
RetireConflicting(vs, vault, h) ==
  [pk \in DOMAIN vs |->
     IF /\ vs[pk].Type = "AsgardVault"
        /\ vs[pk].Status = "ActiveVault"
        /\ \E member \in vs[pk].Membership : Contains(vault, member)
     THEN UpdateStatus(vs[pk], "RetiringVault", h)
     ELSE vs[pk]]

\* VaultMgr.RotateVault, lines 200-210: node account membership
UpdateSigners(nas, vault) ==
  [a \in DOMAIN nas |->
     IF \E member \in vault.Membership : GetNodeAccountByPubKey(nas, member) = a
     THEN TryAddSignerPubKey(nas[a], vault.PubKey)
     ELSE nas[a]]

\* ------------------------------------------------------------------ state
NodeAccount(n, status) ==
  [NodeAddress |-> <<"thor", n>>, Status |-> status,
   PubKeySet |-> [Secp256k1 |-> n], SignerMembership |-> {}]

NoVaults == [pk \in {} |-> NewVault(0, "ActiveVault", "AsgardVault", pk)]
NoKeygens == [k \in {} |-> <<>>]

\* the asgard vault a genesis file may carry
GenesisVault ==
  [NewVault(0, "ActiveVault", "AsgardVault", GenesisKey) EXCEPT !.Membership = {1}]

\* no TxOut: the zero value of the type
NoTxOut == [Height |-> <<>>, Chain |-> "", TxArray |-> <<>>]

\* the signer process is not running
SignerIdle ==
  /\ storage = <<>> /\ sent = <<>> /\ ch = <<>> /\ failures = 0 /\ pending = {}
  /\ worker = <<>> /\ proc = [pc |-> "off", tx |-> NoTxOut]

\* no memo is being parsed
MemoIdle == memo = <<>> /\ parsed = [err |-> "none"] /\ encoded = [Kind |-> "none"]

\* no stake is being calculated, and no keygens record was handed to
\* SetKeygens by a caller of the store
StakeIdle ==
  /\ stakeArgs = [oldPoolUnits |-> 0]
  /\ stakeRes = [units |-> [err |-> "none"], valid |-> "none"]
  /\ stored = <<>>

\* the bitcoin client has scanned no block and its store is empty
BtcIdle == blockMeta = [Height |-> 0, UnspentTransactionOutputs |-> <<>>] /\ db = <<>>

\* no EventGas is being built
GasIdle == gas = <<>> /\ upserted = <<>>

\* Stop was not called
StopIdle == stopChan = "open" /\ stopper = "idle" /\ observed = {}

\* processKeygen is not running
TssIdle == keygenCh = <<>> /\ kproc = [pc |-> "off"] /\ added = {}

\* the Yggdrasil handler has not run
YggIdle == events = <<>> /\ slashes = <<>> /\ refunds = <<>> /\ msgs = <<>>

Init ==
  /\ height = genesisBlockHeight
  /\ version \in Versions
  /\ migrateInterval \in MigrateIntervals
  /\ vaults \in {NoVaults, SetVault(NoVaults, GenesisVault)}
  /\ \E act \in SUBSET NodeKeys :
        nodes = [n \in NodeKeys |->
                   NodeAccount(n, IF n \in act THEN "Active" ELSE "Standby")]
  /\ keygens = NoKeygens
  /\ txout = <<>>
  /\ nextKey = 1
  /\ deposits = 0
  /\ submitted = <<>>
  /\ pre = vaults
  /\ lastOp = [op |-> "Init", height |-> 0, err |-> "nil", pk |-> 0]
  /\ YggIdle
  /\ SignerIdle
  /\ MemoIdle /\ StakeIdle /\ BtcIdle /\ GasIdle
  /\ StopIdle /\ TssIdle

\* ---------------------------------------------------------------- actions
\* VaultMgr.EndBlock, run once at the end of the block of the current
\* height under the protocol version of the chain; the next block then begins
EndBlockUpTo(limit) ==
  /\ height <= limit
  /\ LET g == processGenesisSetup(vaults, nodes, keygens, height)
         m == MigrateFunds(vaults, txout, height, migrateInterval, version)
     IN  IF height = genesisBlockHeight
         THEN /\ vaults' = g.vaults
              /\ keygens' = g.keygens
              /\ txout' = txout
              /\ submitted' = <<>>
              /\ lastOp' = [op |-> "EndBlock", height |-> height, err |-> g.err, pk |-> 0]
         ELSE /\ vaults' = m.vaults
              /\ keygens' = keygens
              /\ txout' = m.txout
              /\ submitted' = m.submitted
              /\ lastOp' = [op |-> "EndBlock", height |-> height, err |-> m.err, pk |-> 0]
  /\ pre' = vaults
  /\ height' = height + 1
  /\ UNCHANGED <<version, migrateInterval, nodes, nextKey, deposits,
               yggVars, signerVars, memoVars, stakeVars, keygenVars,
               btcVars, gasVars, stopVars, tssVars>>

EndBlock == EndBlockUpTo(MaxHeight)

\* VaultMgr.RotateVault on the vault of a completed keygen: a new Active
\* asgard vault under a fresh pubkey. The first keygen is requested by the
\* EndBlock of the genesis block, so its vault arrives in a later block.
RotateVault(members) ==
  /\ nextKey <= MaxRotations
  /\ height > genesisBlockHeight
  /\ height <= MaxHeight
  /\ LET vault == [NewVault(height, "ActiveVault", "AsgardVault", TssKey(nextKey))
                     EXCEPT !.Membership = members]
     IN  /\ vaults' = SetVault(RetireConflicting(vaults, vault, height), vault)
         /\ nodes' = UpdateSigners(nodes, vault)
         /\ lastOp' = [op |-> "RotateVault", height |-> height, err |-> "nil",
                       pk |-> vault.PubKey]
  /\ nextKey' = nextKey + 1
  /\ pre' = vaults
  /\ submitted' = <<>>
  /\ UNCHANGED <<height, version, migrateInterval, keygens, txout, deposits,
               yggVars, signerVars, memoVars, stakeVars, keygenVars,
               btcVars, gasVars, stopVars, tssVars>>

RECURSIVE AddCoins(_, _, _)
\* the coins of an observed transfer, added one after the other
AddCoins(vault, coins, i) ==
  IF i > Len(coins) THEN vault
  ELSE AddCoins(AddFunds(vault, coins[i].Asset, coins[i].Amount), coins, i + 1)

\* an inbound transfer to an Active asgard vault, the address users are
\* given, is observed: its funds are added to the vault
ObservedTxIn(pk, coins) ==
  /\ deposits < MaxDeposits
  /\ height <= MaxHeight
  /\ pk \in DOMAIN vaults
  /\ vaults[pk].Type = "AsgardVault"
  /\ vaults[pk].Status = "ActiveVault"
  /\ vaults' = SetVault(vaults, AddCoins(vaults[pk], coins, 1))
  /\ deposits' = deposits + 1
  /\ lastOp' = [op |-> "ObservedTxIn", height |-> height, err |-> "nil", pk |-> 0]
  /\ pre' = vaults'
  /\ submitted' = <<>>
  /\ UNCHANGED <<height, version, migrateInterval, nodes, keygens, txout, nextKey,
               yggVars, signerVars, memoVars, stakeVars, keygenVars,
               btcVars, gasVars, stopVars, tssVars>>

\* the signed outbound of a pending item is observed: the item is marked
\* complete, the paying vault is debited and a receiving vault credited
ObservedTxOut(i) ==
  /\ height <= MaxHeight
  /\ Cardinality({j \in 1..Len(txout) : txout[j].OutHash # ""}) < MaxObserved
  /\ i \in 1..Len(txout)
  /\ txout[i].OutHash = ""
  /\ LET toi == txout[i].Item
         from == toi.VaultPubKey
         to == toi.ToAddress.pk
         debited == IF from \in DOMAIN vaults
                    THEN SetVault(vaults, SubFunds(vaults[from], toi.Coin.Asset, toi.Coin.Amount))
                    ELSE vaults
     IN  /\ vaults' = IF to \in DOMAIN debited
                       THEN SetVault(debited, AddFunds(debited[to], toi.Coin.Asset, toi.Coin.Amount))
                       ELSE debited
         /\ lastOp' = [op |-> "ObservedTxOut", height |-> height, err |-> "nil", pk |-> 0]
  /\ txout' = [txout EXCEPT ![i].OutHash = "signed"]
  /\ pre' = vaults'
  /\ submitted' = <<>>
  /\ UNCHANGED <<height, version, migrateInterval, nodes, keygens, nextKey, deposits,
               yggVars, signerVars, memoVars, stakeVars, keygenVars,
               btcVars, gasVars, stopVars, tssVars>>

Next ==
  \/ EndBlock
  \/ \E members \in (SUBSET NodeKeys) \ {{}} : RotateVault(members)
  \/ \E pk \in NodeKeys \cup {GenesisKey} \cup TssKeys, coins \in DepositCoins :
        ObservedTxIn(pk, coins)
  \/ \E i \in 1..Len(txout) : ObservedTxOut(i)

Spec == Init /\ [][Next]_vars

\* ------------------------------------------- the migration-schedule scenario
SchedStarts == {2, 5}
SchedRetiring == TssKey(1)
SchedActive == TssKey(2)

\* the state right after the rotation, in block H, that retired a vault
\* holding 1000 BTC.BTC in favour of a new Active vault
SchedInit ==
  /\ height \in SchedStarts
  /\ version \in Versions
  /\ migrateInterval = 100
  /\ vaults =
       SetVault(
         SetVault(NoVaults,
           [NewVault(genesisBlockHeight, "RetiringVault", "AsgardVault", SchedRetiring)
              EXCEPT !.Membership = {1}, !.StatusSince = height,
                     !.Coins = <<[Asset |-> "BTC.BTC", Amount |-> 1000]>>]),
         [NewVault(height, "ActiveVault", "AsgardVault", SchedActive)
            EXCEPT !.Membership = {1}])
  /\ nodes = [n \in NodeKeys |->
               IF n = 1
               THEN [NodeAccount(1, "Active")
                       EXCEPT !.SignerMembership = {SchedRetiring, SchedActive}]
               ELSE NodeAccount(n, "Standby")]
  /\ keygens = NoKeygens
  /\ txout = <<>>
  /\ nextKey = 3
  /\ deposits = 1
  /\ submitted = <<>>
  /\ pre = vaults
  /\ lastOp = [op |-> "RotateVault", height |-> height, err |-> "nil",
               pk |-> SchedActive]
  /\ YggIdle
  /\ SignerIdle
  /\ MemoIdle /\ StakeIdle /\ BtcIdle /\ GasIdle
  /\ StopIdle /\ TssIdle

SchedEndBlock == EndBlockUpTo(MaxSchedBlocks)

SchedNext == SchedEndBlock

SchedSpec == SchedInit /\ [][SchedNext]_vars

\* ----------------------------------------------------------- properties
\* the last step was an EndBlock that returned no error
EndBlockDone == lastOp.op = "EndBlock" /\ lastOp.err = "nil"

IsAsgard(vs, pk, status) ==
  pk \in DOMAIN vs /\ vs[pk].Type = "AsgardVault" /\ vs[pk].Status = status

\* the items the last EndBlock submitted for a vault
ItemsOf(pk) ==
  {i \in 1..Len(submitted) : submitted[i].VaultPubKey = pk}

\* blocks since the scenario's vault began retiring, at the last EndBlock
SchedElapsed == lastOp.height - vaults[SchedRetiring].StatusSince

\* the last EndBlock submitted exactly one migration item, of this amount
SchedSubmitted(amt) ==
  /\ Len(submitted) = 1
  /\ submitted[1].Memo = <<"m", "i", "g", "r", "a", "t", "e">>
  /\ submitted[1].VaultPubKey = SchedRetiring
  /\ submitted[1].Coin = [Asset |-> "BTC.BTC", Amount |-> amt]

\* C1 (as amended): for a Retiring vault of 1000 BTC.BTC with status_since = H
\* and FundMigrationInterval = 100, an Active vault existing and the balance
\* unchanged, EndBlock submits a migration outbound of 200 in block H itself,
\* 400 at H+100, 600 at H+200, 800 at H+300 and the full 1000 at H+400 and
\* at H+500.
C1_Schedule ==
  EndBlockDone =>
    /\ (SchedElapsed = 0 => SchedSubmitted(200))
    /\ (SchedElapsed = 100 => SchedSubmitted(400))
    /\ (SchedElapsed = 200 => SchedSubmitted(600))
    /\ (SchedElapsed = 300 => SchedSubmitted(800))
    /\ (SchedElapsed = 400 => SchedSubmitted(1000))
    /\ (SchedElapsed = 500 => SchedSubmitted(1000))

\* C1 as stated: 200 at H+100, 400 at H+200, 600 at H+300, 800 at H+400 and
\* the remaining 1000 at H+500.
C1_Original ==
  EndBlockDone =>
    /\ (SchedElapsed = 100 => SchedSubmitted(200))
    /\ (SchedElapsed = 200 => SchedSubmitted(400))
    /\ (SchedElapsed = 300 => SchedSubmitted(600))
    /\ (SchedElapsed = 400 => SchedSubmitted(800))
    /\ (SchedElapsed = 500 => SchedSubmitted(1000))

C1_Witness ==
  EndBlockDone /\ SchedElapsed = 300 /\ SchedSubmitted(800)

\* C2: every migration item EndBlock submits for a coin of a Retiring vault
\* has, with nth = 1 + (height - status_since) / FundMigrationInterval, the
\* amount floor(balance * nth / 5) when nth < 5 and the whole balance when
\* nth >= 5, and never more than the vault's balance of that coin.
C2_MigrationAmount ==
  EndBlockDone =>
    \A i \in 1..Len(submitted) :
      LET toi == submitted[i]
          vault == pre[toi.VaultPubKey]
          balance == GetCoin(vault, toi.Coin.Asset).Amount
          n == 1 + (lastOp.height - vault.StatusSince) \div migrateInterval
      IN  /\ n < 5 => toi.Coin.Amount = (balance * n) \div 5
          /\ n >= 5 => toi.Coin.Amount = balance
          /\ toi.Coin.Amount <= balance

\* a partial round whose amount is rounded down
C2_Witness ==
  /\ EndBlockDone
  /\ \E i \in 1..Len(submitted) :
       LET toi == submitted[i]
           vault == pre[toi.VaultPubKey]
           balance == GetCoin(vault, toi.Coin.Asset).Amount
           n == 1 + (lastOp.height - vault.StatusSince) \div migrateInterval
       IN  n > 1 /\ n < 5 /\ (balance * n) % 5 # 0 /\ toi.Coin.Amount > 0

\* a final round, moving the whole balance
C2_WitnessFinal ==
  /\ EndBlockDone
  /\ \E i \in 1..Len(submitted) :
       LET toi == submitted[i]
           vault == pre[toi.VaultPubKey]
       IN  /\ 1 + (lastOp.height - vault.StatusSince) \div migrateInterval >= 5
           /\ toi.Coin.Amount > 0

C3_WitnessRound ==
  /\ EndBlockDone
  /\ \E pk \in DOMAIN pre :
       /\ IsAsgard(pre, pk, "RetiringVault")
       /\ Len(pre[pk].Coins) = 2
       /\ Cardinality(ItemsOf(pk)) = 2

\* C4: the to-address of every migration item is the address, on the coin's
\* chain, of an Active asgard vault that holds no more of the coin's asset
\* than any other Active asgard vault; the item's vault_pub_key is the
\* Retiring vault being drained.
C4_Receiver ==
  EndBlockDone =>
    \A i \in 1..Len(submitted) :
      LET toi == submitted[i]
      IN  /\ IsAsgard(pre, toi.VaultPubKey, "RetiringVault")
          /\ \E r \in DOMAIN pre :
               /\ IsAsgard(pre, r, "ActiveVault")
               /\ toi.ToAddress = GetAddress(r, Chain(toi.Coin.Asset))
               /\ toi.Chain = Chain(toi.Coin.Asset)
               /\ \A a \in DOMAIN pre :
                    IsAsgard(pre, a, "ActiveVault") =>
                      GetCoin(pre[r], toi.Coin.Asset).Amount
                        <= GetCoin(pre[a], toi.Coin.Asset).Amount

\* an item sent to an Active vault although another Active vault, earlier in
\* the keeper's order, holds more of the asset
C4_Witness ==
  /\ EndBlockDone
  /\ \E i \in 1..Len(submitted) :
       \E a \in DOMAIN pre :
         /\ IsAsgard(pre, a, "ActiveVault")
         /\ a < submitted[i].ToAddress.pk
         /\ GetCoin(pre[a], submitted[i].Coin.Asset).Amount
              > GetCoin(pre[submitted[i].ToAddress.pk], submitted[i].Coin.Asset).Amount

RetiringHasActive ==
  (\E pk \in DOMAIN vaults : IsAsgard(vaults, pk, "RetiringVault")) =>
    (\E pk \in DOMAIN vaults : IsAsgard(vaults, pk, "ActiveVault"))

\* C6: in every step, a Retiring asgard vault stays Retiring or is deleted,
\* an Active asgard vault is not deleted, and a vault that is deleted was
\* Retiring and held no funds.
C6_OneWayLifecycle ==
  [][\A pk \in DOMAIN vaults :
       vaults[pk].Type = "AsgardVault" =>
         /\ vaults[pk].Status = "RetiringVault" =>
              (pk \notin DOMAIN vaults' \/ vaults'[pk].Status = "RetiringVault")
         /\ vaults[pk].Status = "ActiveVault" => pk \in DOMAIN vaults'
         /\ pk \notin DOMAIN vaults' =>
              (vaults[pk].Status = "RetiringVault" /\ ~HasFunds(vaults[pk]))]_vars

\* an EndBlock deleted one vault and kept another Retiring one
C6_Witness ==
  /\ EndBlockDone
  /\ \E pk \in DOMAIN pre : pk \notin DOMAIN vaults
  /\ \E pk \in DOMAIN pre : IsAsgard(vaults, pk, "RetiringVault")

\* C7: after RotateVault(new) in block h, every asgard vault that was Active
\* before and shares a member with the new vault is Retiring with
\* status_since = h and otherwise as it was, every Active asgard vault that
\* shares no member with it is unchanged, and the new vault is stored.
C7_Rotation ==
  lastOp.op = "RotateVault" =>
    /\ lastOp.pk \in DOMAIN vaults
    /\ lastOp.pk \notin DOMAIN pre
    /\ vaults[lastOp.pk].Status = "ActiveVault"
    /\ vaults[lastOp.pk].Type = "AsgardVault"
    /\ \A pk \in DOMAIN pre :
         IsAsgard(pre, pk, "ActiveVault") =>
           IF pre[pk].Membership \cap vaults[lastOp.pk].Membership # {}
           THEN /\ pk \in DOMAIN vaults
                /\ vaults[pk] = [pre[pk] EXCEPT !.Status = "RetiringVault",
                                                !.StatusSince = lastOp.height]
           ELSE pk \in DOMAIN vaults /\ vaults[pk] = pre[pk]

\* a rotation that retired one Active vault, in a later block than the one
\* it became Active in, and left another Active vault alone
C7_Witness ==
  /\ lastOp.op = "RotateVault"
  /\ \E pk \in DOMAIN pre :
       /\ IsAsgard(pre, pk, "ActiveVault")
       /\ IsAsgard(vaults, pk, "RetiringVault")
       /\ pre[pk].StatusSince < lastOp.height
  /\ \E pk \in DOMAIN pre :
       IsAsgard(pre, pk, "ActiveVault") /\ IsAsgard(vaults, pk, "ActiveVault")

\* the last step was the EndBlock of the genesis block
GenesisDone == lastOp.op = "EndBlock" /\ lastOp.height = genesisBlockHeight

ActiveNodeKeys ==
  {nodes[a].PubKeySet.Secp256k1 : a \in {b \in DOMAIN nodes : nodes[b].Status = "Active"}}

NoAsgard(vs) == \A pk \in DOMAIN vs : vs[pk].Type # "AsgardVault"

\* C8: the EndBlock of the genesis block, with no asgard vault stored and
\* exactly one Active node account, stores exactly one vault, an Active
\* asgard vault whose pub_key is that node's secp256k1 pubkey and whose
\* membership is that pubkey alone, and writes no keygen record; with an
\* asgard vault already stored it changes nothing.
C8_GenesisOneNode ==
  GenesisDone =>
    /\ (NoAsgard(pre) /\ Cardinality(ActiveNodeKeys) = 1) =>
         \E pk \in ActiveNodeKeys :
           /\ DOMAIN vaults = DOMAIN pre \cup {pk}
           /\ pk \notin DOMAIN pre
           /\ \A k \in DOMAIN pre : vaults[k] = pre[k]
           /\ vaults[pk].PubKey = pk
           /\ vaults[pk].Type = "AsgardVault"
           /\ vaults[pk].Status = "ActiveVault"
           /\ vaults[pk].Membership = {pk}
           /\ vaults[pk].Coins = <<>>
           /\ keygens = NoKeygens
           /\ lastOp.err = "nil"
    /\ ~NoAsgard(pre) =>
         (vaults = pre /\ keygens = NoKeygens /\ txout = <<>> /\ lastOp.err = "nil")

C8_Witness ==
  /\ GenesisDone
  /\ NoAsgard(pre)
  /\ Cardinality(ActiveNodeKeys) = 1
  /\ Cardinality(DOMAIN vaults) = 1

\* genesis with a vault from the genesis file
C8_WitnessExisting ==
  GenesisDone /\ ~NoAsgard(pre) /\ ActiveNodeKeys # {}

\* C9: the EndBlock of the genesis block, with no asgard vault and two or
\* more Active node accounts, writes one Keygens record, for the current
\* height, whose single group holds the pubkey of every Active node; it
\* creates no vault and submits no migration item.
C9_GenesisKeygen ==
  (GenesisDone /\ NoAsgard(pre) /\ Cardinality(ActiveNodeKeys) >= 2) =>
    /\ DOMAIN keygens = {keygenKey(lastOp.height)}
    /\ LET kg == GetKeygens(keygens, lastOp.height)
       IN  /\ kg.Height = lastOp.height
           /\ Len(kg.Keygens) = 1
           /\ Len(kg.Keygens[1]) = Cardinality(ActiveNodeKeys)
           /\ {kg.Keygens[1][i] : i \in 1..Len(kg.Keygens[1])} = ActiveNodeKeys
    /\ vaults = pre
    /\ submitted = <<>>
    /\ txout = <<>>
    /\ lastOp.err = "nil"

C9_Witness ==
  /\ GenesisDone
  /\ NoAsgard(pre)
  /\ Cardinality(ActiveNodeKeys) >= 2
  /\ Len(GetKeygens(keygens, genesisBlockHeight).Keygens) = 1

\* C10: no two items of the outbound queue have the same
\* (in_hash, to_address, asset) triple.
C10_AtMostOncePerKey ==
  \A i, j \in 1..Len(txout) :
    i # j => TxOutKey(txout[i].Item) # TxOutKey(txout[j].Item)

\* ------------------------------------------------------ Yggdrasil handler
MaxYggRuns == 2        \* messages the Yggdrasil handler runs on

YggVersions == Versions \cup {"1.0.0"}

\* version.GTE(semver.MustParse(min))
GTE_Always(ver, min) == TRUE

GTE(ver, min) ==
  LET SemVer(v) == CASE v = "0.0.9" -> <<0, 0, 9>>
                     [] v = "0.1.0" -> <<0, 1, 0>>
                     [] OTHER -> <<1, 0, 0>>
      a == SemVer(ver)
      b == SemVer(min)
  IN  \/ a[1] > b[1]
      \/ a[1] = b[1] /\ a[2] > b[2]
      \/ a[1] = b[1] /\ a[2] = b[2] /\ a[3] >= b[3]

\* NewEvent: the envelope of a keeper event
NewEvent(typ, ht, inTx, status) ==
  [Height |-> ht, Type |-> typ, InTx |-> inTx, Status |-> status]

\* Keeper.GetVault: the stored vault, or an empty one with ErrVaultNotFound
GetVault(vs, pk) ==
  IF pk \in DOMAIN vs THEN vs[pk] ELSE NewVault(0, "", "", pk)

\* Vaults.HasAddress: one of the vaults controls the address on the chain
HasAddress(pks, chain, addr) ==
  \E i \in 1..Len(pks) : GetAddress(pks[i], chain) = addr

\* a recipient test that accepts an asgard vault of any status
isAsgardReceipient_AnyStatus(vs, tx) ==
  HasAddress(GetAsgardVaults(vs), tx.Chain, tx.ToAddress)

\* handleYggdrasilReturn, lines 664-669: the to-address of the observed tx
\* belongs to an Active asgard vault
isAsgardReceipient(vs, tx) ==
  HasAddress(GetAsgardVaultsByStatus(vs, "ActiveVault"), tx.Chain, tx.ToAddress)

\* slashNodeAccount: the bond of the node holding the pubkey is slashed by
\* the amount of the asset; the slash is recorded
slashNodeAccount(log, pk, asset, amount) ==
  Append(log, [PubKey |-> pk, Asset |-> asset, Amount |-> amount])

RECURSIVE SlashCoins(_, _, _, _)
\* handleYggdrasilReturn, lines 677-682: one slash per coin of the tx
SlashCoins(log, pk, coins, i) ==
  IF i > Len(coins) THEN log
  ELSE SlashCoins(slashNodeAccount(log, pk, coins[i].Asset, coins[i].Amount),
                  pk, coins, i + 1)

\* refundBond: the bond of the node goes out to its address in RUNE
refundBond(k, tx, na, h) ==
  [k EXCEPT
     !.refunds = Append(@, [Tx |-> tx.ID, NodeAddress |-> na.NodeAddress]),
     !.txout = TryAddTxOutItem(@, h,
                 [Chain |-> "BNB", InHash |-> tx.ID, ToAddress |-> na.NodeAddress,
                  VaultPubKey |-> 0,
                  Coin |-> [Asset |-> "BNB.RUNE", Amount |-> na.Bond],
                  Memo |-> ""])]

\* isSignedByActiveNodeAccounts: there is a signer, and every signer is the
\* address of an Active node account
isSignedByActiveNodeAccounts(nas, signers) ==
  /\ signers # {}
  /\ \A a \in signers : a \in DOMAIN nas /\ nas[a].Status = "Active"

\* MsgYggdrasil.ValidateBasic: pubkey, tx id, coins and signers are present
ValidateBasic(m) ==
  m.PubKey # 0 /\ m.Tx.ID # "" /\ Len(m.Coins) > 0 /\ m.Signers # {}

\* a validation that does not look at the signers
validateV1_AnySigner(nas, m) ==
  IF ~ValidateBasic(m) THEN "ErrUnknownRequest" ELSE "nil"

\* YggdrasilHandler.validateV1
validateV1(nas, m) ==
  IF ~ValidateBasic(m) THEN "ErrUnknownRequest"
  ELSE IF ~isSignedByActiveNodeAccounts(nas, m.Signers) THEN "ErrUnauthorized"
  ELSE "nil"

\* YggdrasilHandler.validate
validate(nas, m, ver) ==
  IF GTE(ver, "0.1.0") THEN validateV1(nas, m) ELSE "errBadVersion"

\* a fund handling that records its event for a vault of any type
handleYggdrasilFund_AnyVault(k, m, vault, h) ==
  [code |-> "CodeOK",
   k |-> [k EXCEPT !.events = Append(@, [Height |-> h, Type |-> "yggdrasil",
                                         InTx |-> m.Tx, Status |-> "Success"])]]

\* YggdrasilHandler.handleYggdrasilFund: the keeper records an event for the
\* inbound half, observed on the yggdrasil vault; the chain event the
\* asgard half emits is not keeper state
handleYggdrasilFund(k, m, vault, h) ==
  IF vault.Type = "YggdrasilVault"
  THEN [code |-> "CodeOK",
        k |-> [k EXCEPT !.events =
                 Append(@, NewEvent("yggdrasil", h, m.Tx, "Success"))]]
  ELSE [code |-> "CodeOK", k |-> k]

\* YggdrasilHandler.handleYggdrasilReturn
handleYggdrasilReturn(k, m, vault, ver, h) ==
  IF vault.Type = "YggdrasilVault"
  THEN LET slashed ==
             IF ~isAsgardReceipient(k.vaults, m.Tx)
             THEN [k EXCEPT !.slashes = SlashCoins(@, m.PubKey, m.Tx.Coins, 1)]
             ELSE k
           na == k.nodes[GetNodeAccountByPubKey(k.nodes, m.PubKey)]
       IN  IF na.Status = "Active" THEN [code |-> "CodeOK", k |-> slashed]
           ELSE IF ~HasTxOutStore(ver)
                THEN [code |-> "errBadVersion", k |-> slashed]
           ELSE [code |-> "CodeOK", k |-> refundBond(slashed, m.Tx, na, h)]
  ELSE IF vault.Type = "AsgardVault"
       THEN [code |-> "CodeOK",
             k |-> [k EXCEPT !.events =
                      Append(@, NewEvent("yggdrasil", h, m.Tx, "Success"))]]
  ELSE [code |-> "CodeOK", k |-> k]

\* YggdrasilHandler.handleV1: a vault that is not stored counts as an Active
\* yggdrasil vault
handleV1(k, m, ver, h) ==
  LET found == GetVault(k.vaults, m.PubKey)
      vault == IF found.Type = ""
               THEN [found EXCEPT !.Status = "ActiveVault", !.Type = "YggdrasilVault"]
               ELSE found
  IN  IF m.AddFunds THEN handleYggdrasilFund(k, m, vault, h)
      ELSE handleYggdrasilReturn(k, m, vault, ver, h)

\* YggdrasilHandler.handle
handle(k, m, ver, h) ==
  IF GTE(ver, "0.1.0") THEN handleV1(k, m, ver, h)
  ELSE [code |-> "errBadVersion", k |-> k]

\* YggdrasilHandler.Run
Run(k, m, ver, h) ==
  IF m.Kind # "MsgYggdrasil" THEN [code |-> "errInvalidMessage", k |-> k]
  ELSE IF validate(k.nodes, m, ver) # "nil"
       THEN [code |-> validate(k.nodes, m, ver), k |-> k]
  ELSE handle(k, m, ver, h)

\* the messages handed to the handler: observations of transfers to the
\* retiring asgard vault, the Active asgard vault, or the address of node 2,
\* reported for the vault of a node or for the Active asgard vault; two
\* messages without a pubkey; and a message of another kind
YggMsgs ==
  {[Kind |-> kind, PubKey |-> pk, AddFunds |-> add, Coins |-> coins,
    Tx |-> [ID |-> "TX", Chain |-> Chain(coins[1].Asset),
            ToAddress |-> GetAddress(to, Chain(coins[1].Asset)), Coins |-> coins],
    Signers |-> signers] :
     kind \in {"MsgYggdrasil"}, pk \in NodeKeys \cup {TssKey(2)}, add \in BOOLEAN,
     coins \in DepositCoins, to \in {TssKey(1), TssKey(2), 2},
     signers \in (SUBSET NodeKeys) \ {{}}}
  \cup
  {[Kind |-> kind, PubKey |-> 0, AddFunds |-> FALSE, Coins |-> coins,
    Tx |-> [ID |-> "TX", Chain |-> "BTC", ToAddress |-> GetAddress(2, "BTC"),
            Coins |-> coins],
    Signers |-> {n}] :
     kind \in {"MsgYggdrasil", "MsgBond"}, n \in NodeKeys,
     coins \in {<<[Asset |-> "BTC.BTC", Amount |-> 7]>>}}

\* node 1 runs a yggdrasil vault, node 2 has none stored; one asgard vault is
\* retiring and one is Active
YggInit ==
  /\ height \in SchedStarts
  /\ version \in YggVersions
  /\ migrateInterval = 1
  /\ vaults =
       SetVault(SetVault(SetVault(NoVaults,
         [NewVault(genesisBlockHeight, "RetiringVault", "AsgardVault", TssKey(1))
            EXCEPT !.Membership = NodeKeys]),
         [NewVault(height, "ActiveVault", "AsgardVault", TssKey(2))
            EXCEPT !.Membership = NodeKeys]),
         [NewVault(genesisBlockHeight, "ActiveVault", "YggdrasilVault", 1)
            EXCEPT !.Membership = {1}])
  /\ \E act \in SUBSET NodeKeys :
        nodes = [n \in NodeKeys |->
                   NodeAccount(n, IF n \in act THEN "Active" ELSE "Standby")
                     @@ [Bond |-> 100]]
  /\ keygens = NoKeygens
  /\ txout = <<>>
  /\ nextKey = 3
  /\ deposits = 1
  /\ submitted = <<>>
  /\ pre = vaults
  /\ lastOp = [op |-> "Init", height |-> 0, err |-> "nil", pk |-> 0]
  /\ YggIdle
  /\ SignerIdle
  /\ MemoIdle /\ StakeIdle /\ BtcIdle /\ GasIdle
  /\ StopIdle /\ TssIdle

\* the keeper state the handler reads and writes
Keeper ==
  [vaults |-> vaults, nodes |-> nodes, txout |-> txout,
   events |-> events, slashes |-> slashes, refunds |-> refunds]

\* YggdrasilHandler.Run on a message of the current block
YggdrasilRun(m) ==
  /\ Len(msgs) < MaxYggRuns
  /\ LET r == Run(Keeper, m, version, height)
     IN  /\ vaults' = r.k.vaults
         /\ nodes' = r.k.nodes
         /\ txout' = r.k.txout
         /\ events' = r.k.events
         /\ slashes' = r.k.slashes
         /\ refunds' = r.k.refunds
         /\ lastOp' = [op |-> "YggdrasilRun", height |-> height, err |-> r.code,
                       pk |-> m.PubKey]
  /\ msgs' = Append(msgs, m)
  /\ pre' = vaults
  /\ submitted' = <<>>
  /\ UNCHANGED <<height, version, migrateInterval, keygens, nextKey, deposits,
               signerVars, memoVars, stakeVars, keygenVars, btcVars, gasVars,
               stopVars, tssVars>>

YggNext == \E m \in YggMsgs : YggdrasilRun(m)

YggSpec == YggInit /\ [][YggNext]_vars

\* the message of the last run of the handler
LastMsg == msgs[Len(msgs)]

\* the last step was a run of the handler that returned the code
YggRan(code) == lastOp.op = "YggdrasilRun" /\ lastOp.err = code

\* the handler treats the vault of a pubkey as a yggdrasil vault
OnYggdrasilVault(pk) ==
  pk \notin DOMAIN vaults \/ vaults[pk].Type = "YggdrasilVault"

\* the address is that of an asgard vault that is Active
ToActiveAsgard(tx) ==
  \E pk \in DOMAIN vaults :
     /\ vaults[pk].Type = "AsgardVault"
     /\ vaults[pk].Status = "ActiveVault"
     /\ GetAddress(pk, tx.Chain) = tx.ToAddress

\* the slashes a tx calls for: one per coin, by its asset and amount
SlashesFor(pk, tx) ==
  [i \in 1..Len(tx.Coins) |->
     [PubKey |-> pk, Asset |-> tx.Coins[i].Asset, Amount |-> tx.Coins[i].Amount]]

\* C11: a yggdrasil- message handled for a Yggdrasil vault slashes the node
\* once per coin of the observed tx, by that coin's asset and amount, when
\* the tx's to-address is not the address of an Active asgard vault, and
\* slashes nothing when it is
C11_ReturnSlash ==
  [][(YggRan("CodeOK") /\ ~LastMsg.AddFunds /\ OnYggdrasilVault(LastMsg.PubKey))' =>
       slashes' = IF ToActiveAsgard(LastMsg.Tx)'
                  THEN slashes
                  ELSE slashes \o SlashesFor(LastMsg.PubKey, LastMsg.Tx)']_vars

\* a return to the retiring asgard vault with two coins was slashed twice
C11_Witness ==
  /\ YggRan("CodeOK") /\ ~LastMsg.AddFunds /\ OnYggdrasilVault(LastMsg.PubKey)
  /\ LastMsg.Tx.ToAddress.pk = TssKey(1)
  /\ Len(LastMsg.Tx.Coins) = 2
  /\ Len(slashes) = 2

\* a return to the Active asgard vault left the slashes empty
C11_WitnessNoSlash ==
  /\ YggRan("CodeOK") /\ ~LastMsg.AddFunds /\ OnYggdrasilVault(LastMsg.PubKey)
  /\ ToActiveAsgard(LastMsg.Tx)
  /\ slashes = <<>>

\* C12: a bond refund is issued only by a yggdrasil return observed from a
\* Yggdrasil vault whose owning node is not Active and whose tx is addressed
\* to an Active asgard vault; no refund is ever issued for an Active node
C12_RefundOnlyAfterSuccessfulReturn ==
  [][refunds' # refunds =>
       (/\ YggRan("CodeOK") /\ ~LastMsg.AddFunds /\ OnYggdrasilVault(LastMsg.PubKey)
        /\ nodes[GetNodeAccountByPubKey(nodes, LastMsg.PubKey)].Status # "Active"
        /\ ToActiveAsgard(LastMsg.Tx))']_vars

\* the part of C12 that the handler keeps: a refund is issued only by a
\* return observed from a Yggdrasil vault whose node is not Active
NoRefundWhileActive ==
  [][refunds' # refunds =>
       (/\ YggRan("CodeOK") /\ ~LastMsg.AddFunds /\ OnYggdrasilVault(LastMsg.PubKey)
        /\ nodes[GetNodeAccountByPubKey(nodes, LastMsg.PubKey)].Status # "Active")']_vars

\* a return that was slashed for its address was followed by a bond refund
RefundAfterSlash ==
  /\ YggRan("CodeOK") /\ Len(msgs) = 1
  /\ ~ToActiveAsgard(LastMsg.Tx)
  /\ slashes # <<>> /\ refunds # <<>> /\ txout # <<>>

\* the state the handler reaches through the keeper
keeperVars == <<vaults, nodes, keygens, txout, events, slashes, refunds>>

\* some signer of the message is not the address of an Active node account
SomeSignerNotActive(m) ==
  \E a \in m.Signers : a \notin DOMAIN nodes \/ nodes[a].Status # "Active"

\* C13: under a version from 0.1.0 on, a run on a well-formed MsgYggdrasil
\* whose signers are not all Active node accounts returns the unauthorized
\* error and leaves the keeper state unchanged: no event, no slash, no bond
\* refund, no outbound
C13_Unauthorized ==
  [][(/\ lastOp.op = "YggdrasilRun"
      /\ LastMsg.Kind = "MsgYggdrasil" /\ LastMsg.PubKey # 0
      /\ version # "0.0.9"
      /\ SomeSignerNotActive(LastMsg))' =>
       (lastOp'.err = "ErrUnauthorized" /\ UNCHANGED keeperVars)]_vars

\* C13 as stated, for every run: signers that are not all Active always get
\* the unauthorized error
C13_Original ==
  [][(lastOp.op = "YggdrasilRun" /\ SomeSignerNotActive(LastMsg))' =>
       (lastOp'.err = "ErrUnauthorized" /\ UNCHANGED keeperVars)]_vars

\* a misdirected return from the vault of a node that has left, signed by a
\* node that is not Active, was turned away
C13_Witness ==
  /\ YggRan("ErrUnauthorized")
  /\ SomeSignerNotActive(LastMsg)
  /\ ~LastMsg.AddFunds /\ ~ToActiveAsgard(LastMsg.Tx)
  /\ nodes[GetNodeAccountByPubKey(nodes, LastMsg.PubKey)].Status # "Active"
  /\ events = <<>> /\ slashes = <<>> /\ refunds = <<>> /\ txout = <<>>

\* C14: a run on a MsgYggdrasil under a version below 0.1.0 returns
\* errBadVersion and leaves the keeper state unchanged; under a version from
\* 0.1.0 on the run is validateV1 followed by handleV1; a message that is not
\* a MsgYggdrasil gets errInvalidMessage and no state change
C14_VersionGate ==
  [][(lastOp.op = "YggdrasilRun")' =>
       LET m == LastMsg'
           v1 == handleV1(Keeper, m, version, height)
       IN  IF m.Kind # "MsgYggdrasil"
           THEN lastOp'.err = "errInvalidMessage" /\ UNCHANGED keeperVars
           ELSE IF version = "0.0.9"
                THEN lastOp'.err = "errBadVersion" /\ UNCHANGED keeperVars
           ELSE IF validateV1(nodes, m) # "nil"
                THEN lastOp'.err = validateV1(nodes, m) /\ UNCHANGED keeperVars
           ELSE lastOp'.err = v1.code /\ Keeper' = v1.k]_vars

\* under version 0.0.9 a misdirected return from the vault of a node that
\* has left, signed by an Active node, was turned away with errBadVersion
C14_Witness ==
  /\ YggRan("errBadVersion") /\ version = "0.0.9"
  /\ LastMsg.Kind = "MsgYggdrasil" /\ LastMsg.PubKey # 0
  /\ ~SomeSignerNotActive(LastMsg)
  /\ ~LastMsg.AddFunds /\ ~ToActiveAsgard(LastMsg.Tx)
  /\ nodes[GetNodeAccountByPubKey(nodes, LastMsg.PubKey)].Status # "Active"
  /\ events = <<>> /\ slashes = <<>> /\ refunds = <<>> /\ txout = <<>>

\* a message of another kind got errInvalidMessage
C14_WitnessKind ==
  YggRan("errInvalidMessage") /\ LastMsg.Kind = "MsgBond" /\ version = "1.0.0"

\* under version 1.0.0 the handler ran and slashed
C14_WitnessV1 ==
  YggRan("CodeOK") /\ version = "1.0.0" /\ Len(msgs) = 1 /\ slashes # <<>>

\* C15: every run of the handler that returns OK, fund or return, on a
\* Yggdrasil vault or on an asgard vault, records exactly one event through
\* the keeper, with status Success, the height of the current block and the
\* tx of the message as in_tx
C15_OneEventPerOkRun ==
  [][YggRan("CodeOK")' =>
       /\ Len(events') = Len(events) + 1
       /\ events'[Len(events')].Status = "Success"
       /\ events'[Len(events')].Height = height
       /\ events'[Len(events')].InTx = LastMsg'.Tx]_vars

\* what the handler does: an OK run records its one event when it handles the
\* inbound half of the transfer, a fund on the Yggdrasil vault or a return
\* on the asgard vault, and records none on the outbound half
OneEventPerInboundHalf ==
  [][YggRan("CodeOK")' =>
       IF LastMsg'.AddFunds = OnYggdrasilVault(LastMsg'.PubKey)
       THEN events' = Append(events, NewEvent("yggdrasil", height, LastMsg'.Tx, "Success"))
       ELSE events' = events]_vars

\* a return was handled for a Yggdrasil vault and nothing was recorded
OkRunWithoutEvent ==
  /\ YggRan("CodeOK") /\ ~LastMsg.AddFunds /\ OnYggdrasilVault(LastMsg.PubKey)
  /\ ToActiveAsgard(LastMsg.Tx)
  /\ events = <<>>

\* ------------------------------------------------------------------ signer
MaxSignFailures == 1   \* SignTx or BroadcastTx calls that fail

\* the chain has not started: the state the off-chain processes run beside
ChainIdle ==
  /\ height = genesisBlockHeight
  /\ version = "0.1.0"
  /\ migrateInterval = 1
  /\ vaults = NoVaults
  /\ nodes = [n \in NodeKeys |-> NodeAccount(n, "Standby")]
  /\ keygens = NoKeygens
  /\ txout = <<>>
  /\ nextKey = 1
  /\ deposits = 0
  /\ submitted = <<>>
  /\ pre = vaults
  /\ lastOp = [op |-> "Init", height |-> 0, err |-> "nil", pk |-> 0]

\* strings are sequences of characters
RECURSIVE ParseDigits(_, _, _)
\* the value of the decimal digits s[i..], after acc; -1 when one of the
\* characters is not a digit
ParseDigits(s, i, acc) ==
  IF i > Len(s) THEN acc
  ELSE IF \E d \in 1..10 : Digits[d] = s[i]
       THEN ParseDigits(s, i + 1,
              acc * 10 + (CHOOSE d \in 1..10 : Digits[d] = s[i]) - 1)
       ELSE -1

\* strconv.ParseInt(s, 10, 64): an optional sign and at least one digit; the
\* value, compared digit by digit, is at most 2^63 - 1, or 2^63 below zero
ParseInt(s) ==
  LET signed == Len(s) > 0 /\ s[1] \in {"+", "-"}
      neg == signed /\ s[1] = "-"
      digits == IF signed THEN Tail(s) ELSE s
      isDigits == \A i \in 1..Len(digits) : \E d \in 1..10 : Digits[d] = digits[i]
      zeros == IF \E i \in 1..Len(digits) : digits[i] # "0"
               THEN (CHOOSE i \in 1..Len(digits) :
                       digits[i] # "0" /\ \A j \in 1..(i - 1) : digits[j] = "0") - 1
               ELSE Len(digits)
      sig == SubSeq(digits, zeros + 1, Len(digits))
      max == <<"9", "2", "2", "3", "3", "7", "2", "0", "3", "6", "8", "5", "4",
               "7", "7", "5", "8", "0", IF neg THEN "8" ELSE "7">>
      val(c) == CHOOSE d \in 1..10 : Digits[d] = c
      above == \E i \in 1..Len(max) :
                  /\ val(sig[i]) > val(max[i])
                  /\ \A j \in 1..(i - 1) : sig[j] = max[j]
  IN  IF Len(digits) = 0 \/ ~isDigits THEN [ok |-> FALSE, v |-> 0]
      ELSE IF Len(sig) > Len(max) \/ (Len(sig) = Len(max) /\ above)
           THEN [ok |-> FALSE, v |-> 0]
      ELSE [ok |-> TRUE,
            v |-> IF neg THEN 0 - ParseDigits(sig, 1, 0) ELSE ParseDigits(sig, 1, 0)]

\* the pubkeys of the signer's pubkey manager
pkm == {1, TssKey(1)}

\* the TxOuts of the chain: one outbound item of a vault of this signer; four
\* items, of which one is of a vault of this signer, one of another vault, one
\* has no to-address and one carries an out hash; a TxOut of another chain;
\* and a TxOut whose height is not a number
SignerTxOuts ==
  LET tai(pk, to, hash) == [VaultPubKey |-> pk, To |-> to, OutHash |-> hash]
  IN  {[Height |-> <<"3">>, Chain |-> "BNB", TxArray |-> <<tai(TssKey(1), "bnb1", "")>>],
       [Height |-> <<"1", "4">>, Chain |-> "BNB",
        TxArray |-> <<tai(1, "bnb2", ""), tai(TssKey(2), "bnb1", ""),
                      tai(TssKey(1), "", ""), tai(TssKey(1), "bnb1", "HASH")>>],
       [Height |-> <<"5">>, Chain |-> "BTC", TxArray |-> <<tai(TssKey(1), "bc1", "")>>],
       [Height |-> <<"x">>, Chain |-> "BNB", TxArray |-> <<tai(TssKey(1), "bnb1", "")>>]}

\* StateChanBlockScannerStorage.SetTxOutStatus: store the TxOut under its
\* height with the status
SetTxOutStatus(st, txOut, status) ==
  [k \in DOMAIN st \cup {txOut.Height} |->
     IF k = txOut.Height THEN [TxOut |-> txOut, Status |-> status] ELSE st[k]]

\* StateChanBlockScannerStorage.RemoveTxOut
RemoveTxOut(st, txOut) == [k \in DOMAIN st \ {txOut.Height} |-> st[k]]

\* StateChanBlockScannerStorage.GetTxOutsForRetry: the stored TxOuts, only
\* those marked Failed when failedOnly is set
GetTxOutsForRetry(st, failedOnly) ==
  {st[k].TxOut : k \in {h \in DOMAIN st : ~failedOnly \/ st[h].Status = "Failed"}}

\* the mutant of shouldSign: every item is taken for the signer's own
shouldSign_Any(tai) == TRUE

\* Signer.shouldSign
shouldSign(tai) == tai.VaultPubKey \in pkm

\* signTxOutAndSendToBinanceChain, lines 281-291, and signAndSendToBinanceChain,
\* line 306: the items of a TxOut that SignTx and BroadcastTx are called for
Attempted(txOut) ==
  IF Len(txOut.TxArray) > 0 /\ ~ParseInt(txOut.Height).ok THEN {}
  ELSE {i \in 1..Len(txOut.TxArray) :
          /\ shouldSign(txOut.TxArray[i])
          /\ txOut.TxArray[i].To # ""
          /\ txOut.TxArray[i].OutHash = ""}

\* Signer.signTxOutAndSendToBinanceChain when SignTx or BroadcastTx fails for
\* the items in fails: the error returned, and the items that went out
signTxOutAndSendToBinanceChain(txOut, fails) ==
  [err |-> Len(txOut.TxArray) > 0 /\ ~ParseInt(txOut.Height).ok,
   sent |-> Attempted(txOut) \ fails]

\* the calls that may fail while a TxOut is signed
MayFail(txOut) ==
  {f \in SUBSET Attempted(txOut) : failures + Cardinality(f) <= MaxSignFailures}

\* the broadcasts after the items of a TxOut went out
Broadcast(txOut, items) ==
  [k \in DOMAIN sent |->
     IF k[1] = txOut.Height /\ k[2] \in items THEN sent[k] + 1 ELSE sent[k]]

\* a retry processor that takes every stored TxOut
retryFailedOnly_No == FALSE

\* retryFailedTxOutProcessor, line 179: GetTxOutsForRetry(true)
retryFailedOnly == TRUE

\* the signer right after Start launched processTxnOut: the local storage
\* holds what an earlier run left, and the scanner has the other TxOuts
SignerInit ==
  /\ ChainIdle /\ YggIdle /\ MemoIdle /\ StakeIdle /\ BtcIdle /\ GasIdle
  /\ StopIdle /\ TssIdle
  /\ \E left \in SUBSET {t \in SignerTxOuts : t.Height # <<"1", "4">>} :
        /\ storage = [k \in {t.Height : t \in left} |->
                        [TxOut |-> CHOOSE t \in left : t.Height = k,
                         Status |-> IF k = <<"x">> THEN "Failed" ELSE "Processing"]]
        /\ pending = SignerTxOuts \ left
  /\ sent = [k \in UNION {{<<t.Height, i>> : i \in 1..Len(t.TxArray)} : t \in SignerTxOuts}
               |-> 0]
  /\ ch = <<>>
  /\ failures = 0
  /\ worker = [w \in {"main", "retry"} |->
                 [pc |-> IF w = "main" THEN "retryAll" ELSE "off", round |-> 1,
                  todo |-> {}, cur |-> NoTxOut]]
  /\ proc = [pc |-> "recv", tx |-> NoTxOut]

\* Signer.retryAll, called by Start: the stored TxOuts are read for a retry
retryAll ==
  /\ worker["main"].pc = "retryAll"
  /\ worker' = [worker EXCEPT !["main"].pc = "retryTxOut",
                              !["main"].todo = GetTxOutsForRetry(storage, FALSE)]
  /\ UNCHANGED <<storage, sent, ch, failures, pending, proc>>
  /\ UNCHANGED <<chainVars, yggVars, memoVars, stakeVars, keygenVars,
                 btcVars, gasVars, stopVars, tssVars>>

\* Signer.retryTxOut in Start (w = "main") or in the retry processor: one
\* TxOut of the list is signed and sent, then removed from the storage; a
\* TxOut of another chain or one that returned an error is passed over
retryTxOut(w) ==
  /\ worker[w].pc = "retryTxOut"
  /\ IF worker[w].cur # NoTxOut
     THEN /\ storage' = RemoveTxOut(storage, worker[w].cur)
          /\ worker' = [worker EXCEPT ![w].cur = NoTxOut]
          /\ UNCHANGED <<sent, failures>>
     ELSE IF worker[w].todo = {}
     THEN /\ worker' = [worker EXCEPT
                          ![w].pc = IF w = "retry" THEN "wait"
                                    ELSE IF worker[w].round = 1 THEN "go"
                                    ELSE "scannerStart"]
          /\ UNCHANGED <<storage, sent, failures>>
     ELSE \E item \in worker[w].todo :
            IF item.Chain # "BNB"
            THEN /\ worker' = [worker EXCEPT ![w].todo = @ \ {item}]
                 /\ UNCHANGED <<storage, sent, failures>>
            ELSE \E fails \in MayFail(item) :
                   LET r == signTxOutAndSendToBinanceChain(item, fails)
                   IN  /\ sent' = Broadcast(item, r.sent)
                       /\ failures' = failures + Cardinality(fails)
                       /\ worker' = [worker EXCEPT
                                       ![w].todo = @ \ {item},
                                       ![w].cur = IF r.err THEN NoTxOut ELSE item]
                       /\ UNCHANGED storage
  /\ UNCHANGED <<ch, pending, proc>>
  /\ UNCHANGED <<chainVars, yggVars, memoVars, stakeVars, keygenVars,
                 btcVars, gasVars, stopVars, tssVars>>

\* Signer.Start, lines 107-116: after the first retryAll the retry processor
\* is launched and retryAll runs again; then the block scanner starts
Start ==
  /\ \/ /\ worker["main"].pc = "go"
        /\ worker' = [worker EXCEPT !["main"].pc = "retryAll",
                                    !["main"].round = 2,
                                    !["retry"].pc = "wait"]
     \/ /\ worker["main"].pc = "scannerStart"
        /\ worker' = [worker EXCEPT !["main"].pc = "started"]
  /\ UNCHANGED <<storage, sent, ch, failures, pending, proc>>
  /\ UNCHANGED <<chainVars, yggVars, memoVars, stakeVars, keygenVars,
                 btcVars, gasVars, stopVars, tssVars>>

\* Signer.retryFailedTxOutProcessor: on a tick the TxOuts to retry are read
retryFailedTxOutProcessor ==
  /\ worker["retry"].pc = "wait"
  /\ worker' = [worker EXCEPT
                  !["retry"].pc = "retryTxOut",
                  !["retry"].todo = GetTxOutsForRetry(storage, retryFailedOnly)]
  /\ UNCHANGED <<storage, sent, ch, failures, pending, proc>>
  /\ UNCHANGED <<chainVars, yggVars, memoVars, stakeVars, keygenVars,
                 btcVars, gasVars, stopVars, tssVars>>

\* the started block scanner puts the TxOut of a block on the channel
Deliver(txOut) ==
  /\ worker["main"].pc = "started"
  /\ txOut \in pending
  /\ pending' = pending \ {txOut}
  /\ ch' = Append(ch, txOut)
  /\ UNCHANGED <<storage, sent, failures, worker, proc>>
  /\ UNCHANGED <<chainVars, yggVars, memoVars, stakeVars, keygenVars,
                 btcVars, gasVars, stopVars, tssVars>>

\* Signer.processTxnOut: a TxOut is received and stored as Processing; it is
\* signed and sent; on an error it is marked Failed; it is removed
processTxnOut ==
  /\ \/ /\ proc.pc = "recv"
        /\ ch # <<>>
        /\ storage' = SetTxOutStatus(storage, Head(ch), "Processing")
        /\ ch' = Tail(ch)
        /\ proc' = [pc |-> "sign", tx |-> Head(ch)]
        /\ UNCHANGED <<sent, failures>>
     \/ /\ proc.pc = "sign"
        /\ \E fails \in MayFail(proc.tx) :
             LET r == signTxOutAndSendToBinanceChain(proc.tx, fails)
             IN  /\ sent' = Broadcast(proc.tx, r.sent)
                 /\ failures' = failures + Cardinality(fails)
                 /\ proc' = [proc EXCEPT !.pc = IF r.err THEN "failed" ELSE "remove"]
        /\ UNCHANGED <<storage, ch>>
     \/ /\ proc.pc = "failed"
        /\ storage' = SetTxOutStatus(storage, proc.tx, "Failed")
        /\ proc' = [proc EXCEPT !.pc = "remove"]
        /\ UNCHANGED <<sent, failures, ch>>
     \/ /\ proc.pc = "remove"
        /\ storage' = RemoveTxOut(storage, proc.tx)
        /\ proc' = [pc |-> "recv", tx |-> NoTxOut]
        /\ UNCHANGED <<sent, failures, ch>>
  /\ UNCHANGED <<pending, worker>>
  /\ UNCHANGED <<chainVars, yggVars, memoVars, stakeVars, keygenVars,
                 btcVars, gasVars, stopVars, tssVars>>

SignerNext ==
  \/ retryAll
  \/ \E w \in {"main", "retry"} : retryTxOut(w)
  \/ Start
  \/ retryFailedTxOutProcessor
  \/ \E txOut \in SignerTxOuts : Deliver(txOut)
  \/ processTxnOut

SignerSpec == SignerInit /\ [][SignerNext]_vars

\* the goroutines of the signer keep running and the ticker keeps ticking
SignerFairSpec ==
  /\ SignerSpec
  /\ WF_vars(retryAll)
  /\ WF_vars(\E w \in {"main", "retry"} : retryTxOut(w))
  /\ WF_vars(Start)
  /\ WF_vars(retryFailedTxOutProcessor)
  /\ WF_vars(processTxnOut)

\* the TxOuts with an item the signer can send
Sendable == {t \in SignerTxOuts : t.Chain = "BNB" /\ Attempted(t) # {}}

\* C16: a TxOut with an item the signer can send, taken up by processTxnOut,
\* has that item signed and broadcast in the end, if need be by a retry:
\* a failed sign or broadcast keeps it in the local storage until it is sent
C16_EventuallySent ==
  \A t \in Sendable :
     [](proc.tx = t => <>(\A i \in Attempted(t) : sent[<<t.Height, i>>] > 0))

\* the safety half of C16: a TxOut leaves the local storage only with every
\* item the signer can send signed and broadcast
RemovedOnlyWhenSent ==
  [][\A t \in Sendable :
       (t.Height \in DOMAIN storage /\ t.Height \notin DOMAIN storage') =>
          \A i \in Attempted(t) : sent'[<<t.Height, i>>] > 0]_vars

\* the TxOut the scanner delivered was taken up by processTxnOut, its
\* broadcast failed, and it is gone from the storage, unsent
FailedAndDropped ==
  /\ failures = 1
  /\ proc.pc = "recv" /\ ch = <<>>
  /\ <<"1", "4">> \notin DOMAIN storage
  /\ ~\E t \in pending : t.Height = <<"1", "4">>
  /\ sent[<<<<"1", "4">>, 1>>] = 0

\* C17: under every interleaving of processTxnOut, the two retryAll calls of
\* Start and the retry processor, no outbound item of a TxOut is signed and
\* broadcast more than once
C17_AtMostOnce == \A k \in DOMAIN sent : sent[k] <= 1

\* the retry processor is in a retry while processTxnOut has sent the items
\* of the TxOut it holds, after an item of an earlier run went out in Start
C17_Witness ==
  /\ worker["retry"].pc = "retryTxOut"
  /\ proc.pc = "remove"
  /\ proc.tx.Height = <<"1", "4">>
  /\ sent[<<<<"1", "4">>, 1>>] = 1
  /\ sent[<<<<"3">>, 1>>] = 1

\* ---------------------------------------------------------------------
\* The memo parser. A Go string is a sequence of one-character strings, so
\* that ToLower, Split and the number parsers work on its characters.

UpperCase == <<"A", "B", "C", "D", "E", "F", "G", "H", "I", "J", "K", "L", "M",
               "N", "O", "P", "Q", "R", "S", "T", "U", "V", "W", "X", "Y", "Z">>

LowerCase == <<"a", "b", "c", "d", "e", "f", "g", "h", "i", "j", "k", "l", "m",
               "n", "o", "p", "q", "r", "s", "t", "u", "v", "w", "x", "y", "z">>

\* s with every character found in the alphabet from replaced by the
\* character at the same place of the alphabet to
MapChars(s, from, to) ==
  [i \in 1..Len(s) |->
     IF \E k \in 1..Len(from) : from[k] = s[i]
     THEN to[CHOOSE k \in 1..Len(from) : from[k] = s[i]]
     ELSE s[i]]

\* strings.ToLower and strings.ToUpper on ASCII text
ToLower(s) == MapChars(s, UpperCase, LowerCase)

ToUpper(s) == MapChars(s, LowerCase, UpperCase)

RECURSIVE Split(_, _)
\* strings.Split(s, sep) for a one-character sep: the fields between the
\* separators, one more than there are separators; the empty string gives
\* one empty field
Split(s, sep) ==
  IF \E i \in 1..Len(s) : s[i] = sep
  THEN LET i == CHOOSE j \in 1..Len(s) :
                  s[j] = sep /\ \A l \in 1..(j - 1) : s[l] # sep
       IN <<SubSeq(s, 1, i - 1)>> \o Split(SubSeq(s, i + 1, Len(s)), sep)
  ELSE <<s>>

\* the alias table: every spelling of an action, in lower case
stringToTxTypeMap ==
  <<"s", "t", "a", "k", "e">> :> "txStake" @@
  <<"s", "t">> :> "txStake" @@
  <<"+">> :> "txStake" @@
  <<"w", "i", "t", "h", "d", "r", "a", "w">> :> "txUnstake" @@
  <<"u", "n", "s", "t", "a", "k", "e">> :> "txUnstake" @@
  <<"w", "d">> :> "txUnstake" @@
  <<"-">> :> "txUnstake" @@
  <<"s", "w", "a", "p">> :> "txSwap" @@
  <<"s">> :> "txSwap" @@
  <<"=">> :> "txSwap" @@
  <<"o", "u", "t", "b", "o", "u", "n", "d">> :> "txOutbound" @@
  <<"a", "d", "d">> :> "txAdd" @@
  <<"a">> :> "txAdd" @@
  <<"%">> :> "txAdd" @@
  <<"g", "a", "s">> :> "txGas" @@
  <<"g">> :> "txGas" @@
  <<"$">> :> "txGas" @@
  <<"b", "o", "n", "d">> :> "txBond" @@
  <<"l", "e", "a", "v", "e">> :> "txLeave" @@
  <<"y", "g", "g", "d", "r", "a", "s", "i", "l", "+">> :> "txYggdrasilFund" @@
  <<"y", "g", "g", "d", "r", "a", "s", "i", "l", "-">> :> "txYggdrasilReturn" @@
  <<"r", "e", "s", "e", "r", "v", "e">> :> "txReserve" @@
  <<"r", "e", "f", "u", "n", "d">> :> "txRefund" @@
  <<"m", "i", "g", "r", "a", "t", "e">> :> "txMigrate" @@
  <<"r", "a", "g", "n", "a", "r", "o", "k">> :> "txRagnarok"

\* the canonical name of each of the fourteen actions; txUnknown has no entry
txToStringMap ==
  "txStake" :> <<"s", "t", "a", "k", "e">> @@
  "txUnstake" :> <<"u", "n", "s", "t", "a", "k", "e">> @@
  "txSwap" :> <<"s", "w", "a", "p">> @@
  "txOutbound" :> <<"o", "u", "t", "b", "o", "u", "n", "d">> @@
  "txAdd" :> <<"a", "d", "d">> @@
  "txGas" :> <<"g", "a", "s">> @@
  "txBond" :> <<"b", "o", "n", "d">> @@
  "txLeave" :> <<"l", "e", "a", "v", "e">> @@
  "txYggdrasilFund" :> <<"y", "g", "g", "d", "r", "a", "s", "i", "l", "+">> @@
  "txYggdrasilReturn" :> <<"y", "g", "g", "d", "r", "a", "s", "i", "l", "-">> @@
  "txReserve" :> <<"r", "e", "s", "e", "r", "v", "e">> @@
  "txRefund" :> <<"r", "e", "f", "u", "n", "d">> @@
  "txMigrate" :> <<"m", "i", "g", "r", "a", "t", "e">> @@
  "txRagnarok" :> <<"r", "a", "g", "n", "a", "r", "o", "k">>

TxTypes == DOMAIN txToStringMap

\* the mutant of stringToTxType: the first field is looked up as it is written
stringToTxType_CaseSensitive(s) ==
  IF s \in DOMAIN stringToTxTypeMap
  THEN [ok |-> TRUE, tx |-> stringToTxTypeMap[s]]
  ELSE [ok |-> FALSE, tx |-> "txUnknown"]

\* stringToTxType: the lower-cased string is looked up in the alias table
stringToTxType(s) ==
  LET sl == ToLower(s)
  IN IF sl \in DOMAIN stringToTxTypeMap
     THEN [ok |-> TRUE, tx |-> stringToTxTypeMap[sl]]
     ELSE [ok |-> FALSE, tx |-> "txUnknown"]

\* TxType.String: the canonical name, the empty string for a type without one
TxTypeString(tx) == IF tx \in DOMAIN txToStringMap THEN txToStringMap[tx] ELSE <<>>

\* TxType.Equals compares the canonical names
Equals(tx, tx2) == TxTypeString(tx) = TxTypeString(tx2)

NoAsset == [Chain |-> <<>>, Symbol |-> <<>>]

\* common.NewAsset: "CHAIN.SYMBOL" or "SYMBOL" on the BNB chain, in upper
\* case; a chain name has three characters or more, a symbol at least one
NewAsset(s) ==
  LET parts == Split(s, ".")
      chain == IF Len(parts) = 1 THEN <<"B", "N", "B">> ELSE ToUpper(parts[1])
      sym == ToUpper(SubSeq(s, IF Len(parts) = 1 THEN 1 ELSE Len(parts[1]) + 2, Len(s)))
  IN IF Len(chain) < 3 \/ Len(sym) = 0
     THEN [ok |-> FALSE, asset |-> NoAsset]
     ELSE [ok |-> TRUE, asset |-> [Chain |-> chain, Symbol |-> sym]]

\* s begins with the characters of prefix
HasPrefix(s, prefix) ==
  Len(s) >= Len(prefix) /\ SubSeq(s, 1, Len(prefix)) = prefix

\* common.NewAddress: a bech32 address of a known chain
NewAddress(s) ==
  HasPrefix(s, <<"b", "n", "b", "1">>) \/ HasPrefix(s, <<"b", "c", "1">>)

\* sdk.AccAddressFromBech32: a blank string is the empty address, without an
\* error; any other string has to be a bech32 address of the node chain
AccAddressFromBech32(s) ==
  (\A i \in 1..Len(s) : s[i] = " ") \/ HasPrefix(s, <<"t", "h", "o", "r", "1">>)

\* common.NewTxID: a hash of 64 characters, kept in upper case
NewTxID(s) ==
  IF Len(s) = 64 THEN [ok |-> TRUE, id |-> ToUpper(s)]
  ELSE [ok |-> FALSE, id |-> <<>>]

\* the largest value the parsed numbers are told apart at: a longer number
\* is only known to be larger
MaxUintDigits == 8

\* sdk.ParseUint: an optional sign and at least one digit; a negative number
\* is an error
ParseUint(s) ==
  LET signed == Len(s) > 0 /\ s[1] \in {"+", "-"}
      digits == IF signed THEN Tail(s) ELSE s
      isDigits == \A i \in 1..Len(digits) : \E d \in 1..10 : Digits[d] = digits[i]
      zero == \A i \in 1..Len(digits) : digits[i] = "0"
  IN IF Len(digits) = 0 \/ ~isDigits \/ (signed /\ s[1] = "-" /\ ~zero)
     THEN [ok |-> FALSE, v |-> 0]
     ELSE IF Len(digits) > MaxUintDigits THEN [ok |-> TRUE, v |-> 10 ^ MaxUintDigits]
     ELSE [ok |-> TRUE, v |-> ParseDigits(digits, 1, 0)]

MaxUnstakeBasisPoints == 10000

\* the mutant of InBasisPoints: zero is let through
InBasisPoints_WithZero(wa) == ~(wa > MaxUnstakeBasisPoints)

\* the withdraw basis points ParseMemo lets through
InBasisPoints(wa) == ~(~(wa > 0) \/ wa > MaxUnstakeBasisPoints)

\* a memo value: Kind is its Go type, TxType the field of its MemoBase, the
\* other fields are what its getters return
Memo(kind, txType) ==
  [Kind |-> kind, TxType |-> txType, Asset |-> NoAsset, Amount |-> <<>>,
   Destination |-> <<>>, SlipLimit |-> 0, TxID |-> <<>>, NodeAddress |-> <<>>,
   BlockHeight |-> 0]

noMemo == Memo("MemoBase", "txUnknown")

GetType(m) == m.TxType

IsType(m, tx) == Equals(m.TxType, tx)

noAssetMemos ==
  {"txGas", "txOutbound", "txBond", "txLeave", "txRefund", "txYggdrasilFund",
   "txYggdrasilReturn", "txReserve", "txMigrate", "txRagnarok"}

\* the mutant of hasField: a field that is there but empty counts
hasField_Present(parts, i) == Len(parts) >= i

\* the i-th field of the memo is there and is not empty
hasField(parts, i) == Len(parts) >= i /\ Len(parts[i]) > 0

\* ParseMemo: the error and the memo it returns for the memo string
ParseMemo(str) ==
  LET Fail(e) == [err |-> e, memo |-> noMemo]
      Ok(m) == [err |-> "nil", memo |-> m]
      parts == Split(str, ":")
      t == stringToTxType(parts[1])
      tx == t.tx
      hasAsset == tx \notin noAssetMemos
      a == IF hasAsset /\ Len(parts) >= 2 THEN NewAsset(parts[2])
           ELSE [ok |-> TRUE, asset |-> NoAsset]
      asset == a.asset
  IN IF Len(str) = 0 THEN Fail("memo can't be empty")
     ELSE IF ~t.ok THEN Fail("invalid tx type")
     ELSE IF hasAsset /\ Len(parts) < 2 THEN Fail("cannot parse given memo")
     ELSE IF ~a.ok THEN Fail("invalid asset")
     ELSE CASE tx = "txGas" -> Ok(Memo("GasMemo", "txGas"))
            [] tx = "txLeave" -> Ok(Memo("LeaveMemo", "txLeave"))
            [] tx = "txAdd" -> Ok([Memo("AddMemo", "txAdd") EXCEPT !.Asset = asset])
            [] tx = "txStake" ->
                 IF asset.Chain # <<"B", "N", "B">>
                 THEN IF Len(parts) < 3 THEN Fail("invalid stake")
                      ELSE IF ~NewAddress(parts[3]) THEN Fail("invalid address")
                      ELSE Ok([Memo("StakeMemo", "txStake") EXCEPT
                                 !.Asset = asset, !.Destination = parts[3]])
                 ELSE Ok([Memo("StakeMemo", "txStake") EXCEPT !.Asset = asset])
            [] tx = "txUnstake" ->
                 LET withdrawAmount == IF Len(parts) > 2 THEN parts[3] ELSE <<>>
                     wa == ParseUint(withdrawAmount)
                 IN IF Len(parts) > 2 /\ ~wa.ok THEN Fail("invalid withdraw amount")
                    ELSE IF Len(parts) > 2 /\ ~InBasisPoints(wa.v)
                    THEN Fail("withdraw amount is invalid")
                    ELSE Ok([Memo("UnstakeMemo", "txUnstake") EXCEPT
                               !.Asset = asset, !.Amount = withdrawAmount])
            [] tx = "txSwap" ->
                 LET hasDest == hasField(parts, 3)
                     hasSlip == hasField(parts, 4)
                     amount == IF hasSlip THEN ParseUint(parts[4])
                               ELSE [ok |-> TRUE, v |-> 0]
                 IN IF hasDest /\ ~NewAddress(parts[3])
                    THEN Fail("invalid address")
                    ELSE IF ~amount.ok THEN Fail("invalid slip limit")
                    ELSE Ok([Memo("SwapMemo", "txSwap") EXCEPT
                               !.Asset = asset,
                               !.Destination = IF hasDest THEN parts[3] ELSE <<>>,
                               !.SlipLimit = amount.v])
            [] tx \in {"txOutbound", "txRefund"} ->
                 IF Len(parts) < 2 THEN Fail("not enough parameters")
                 ELSE LET txID == NewTxID(parts[2])
                      IN [err |-> IF txID.ok THEN "nil" ELSE "invalid tx id",
                          memo |-> [Memo(IF tx = "txOutbound" THEN "OutboundMemo"
                                         ELSE "RefundMemo", "txUnknown")
                                      EXCEPT !.TxID = txID.id]]
            [] tx = "txBond" ->
                 IF Len(parts) < 2 THEN Fail("not enough parameters")
                 ELSE IF ~AccAddressFromBech32(parts[2]) THEN Fail("invalid node address")
                 ELSE Ok([Memo("BondMemo", "txBond") EXCEPT !.NodeAddress = parts[2]])
            [] tx = "txYggdrasilFund" -> Ok(Memo("YggdrasilFundMemo", "txYggdrasilFund"))
            [] tx = "txYggdrasilReturn" ->
                 Ok(Memo("YggdrasilReturnMemo", "txYggdrasilReturn"))
            [] tx = "txReserve" -> Ok(Memo("ReserveMemo", "txYggdrasilReturn"))
            [] tx \in {"txMigrate", "txRagnarok"} ->
                 IF Len(parts) < 2 THEN Fail("not enough parameters")
                 ELSE LET blockHeight == ParseInt(parts[2])
                      IN IF ~blockHeight.ok THEN Fail("invalid block height")
                         ELSE Ok([Memo(IF tx = "txMigrate" THEN "MigrateMemo"
                                       ELSE "RagnarokMemo", tx)
                                    EXCEPT !.BlockHeight = blockHeight.v])
            [] OTHER -> Fail("invalid memo")

\* the memos given to the parser: the empty memo, and every first field
\* followed by every remainder. The first fields are every alias in lower
\* and in upper case, mixed spellings, and words that are no alias; one of
\* the remainders is a transaction hash
MemoInputs ==
  LET MemoFirstFields ==
        { <<"s", "t", "a", "k", "e">>,
          <<"S", "T", "A", "K", "E">>,
          <<"s", "t">>,
          <<"S", "T">>,
          <<"+">>,
          <<"w", "i", "t", "h", "d", "r", "a", "w">>,
          <<"W", "I", "T", "H", "D", "R", "A", "W">>,
          <<"u", "n", "s", "t", "a", "k", "e">>,
          <<"U", "N", "S", "T", "A", "K", "E">>,
          <<"w", "d">>,
          <<"W", "D">>,
          <<"-">>,
          <<"s", "w", "a", "p">>,
          <<"S", "W", "A", "P">>,
          <<"s">>,
          <<"S">>,
          <<"=">>,
          <<"o", "u", "t", "b", "o", "u", "n", "d">>,
          <<"O", "U", "T", "B", "O", "U", "N", "D">>,
          <<"a", "d", "d">>,
          <<"A", "D", "D">>,
          <<"a">>,
          <<"A">>,
          <<"%">>,
          <<"g", "a", "s">>,
          <<"G", "A", "S">>,
          <<"g">>,
          <<"G">>,
          <<"$">>,
          <<"b", "o", "n", "d">>,
          <<"B", "O", "N", "D">>,
          <<"l", "e", "a", "v", "e">>,
          <<"L", "E", "A", "V", "E">>,
          <<"y", "g", "g", "d", "r", "a", "s", "i", "l", "+">>,
          <<"Y", "G", "G", "D", "R", "A", "S", "I", "L", "+">>,
          <<"y", "g", "g", "d", "r", "a", "s", "i", "l", "-">>,
          <<"Y", "G", "G", "D", "R", "A", "S", "I", "L", "-">>,
          <<"r", "e", "s", "e", "r", "v", "e">>,
          <<"R", "E", "S", "E", "R", "V", "E">>,
          <<"r", "e", "f", "u", "n", "d">>,
          <<"R", "E", "F", "U", "N", "D">>,
          <<"m", "i", "g", "r", "a", "t", "e">>,
          <<"M", "I", "G", "R", "A", "T", "E">>,
          <<"r", "a", "g", "n", "a", "r", "o", "k">>,
          <<"R", "A", "G", "N", "A", "R", "O", "K">>,
          <<"S", "t", "a", "k", "e">>,
          <<"s", "W", "a", "P">>,
          <<"W", "i", "t", "h", "d", "r", "a", "w">>,
          <<"f", "o", "o">>,
          <<"s", "t", "a", "k", "e", "s">>,
          <<>>,
          <<"x">> }
      MemoRests ==
        { <<>>,
          <<":">>,
          <<":", "B", "N", "B", ".", "B", "N", "B">>,
          <<":", "b", "n", "b", ".", "b", "n", "b">>,
          <<":", "R", "U", "N", "E", "-", "A", "1", "F">>,
          <<":", "B", "T", "C", ".", "B", "T", "C">>,
          <<":", "B", ".", "B">>,
          <<":", "B", "T", "C", ".", "B", "T", "C", ":", "b", "c", "1", "q">>,
          <<":", "B", "T", "C", ".", "B", "T", "C", ":", "z", "z", "9">>,
          <<":", "B", "N", "B", ".", "B", "N", "B", ":", "0">>,
          <<":", "B", "N", "B", ".", "B", "N", "B", ":", "1">>,
          <<":", "B", "N", "B", ".", "B", "N", "B", ":", "5", "0", "0", "0">>,
          <<":", "B", "N", "B", ".", "B", "N", "B", ":", "1", "0", "0", "0", "0">>,
          <<":", "B", "N", "B", ".", "B", "N", "B", ":", "1", "0", "0", "0", "1">>,
          <<":", "B", "N", "B", ".", "B", "N", "B", ":", "a", "b", "c">>,
          <<":", "B", "N", "B", ".", "B", "N", "B", ":">>,
          <<":", "B", "N", "B", ".", "B", "N", "B", ":", "-", "5">>,
          <<":", "B", "N", "B", ".", "B", "N", "B", ":", "0", "1", "0", "0">>,
          <<":", "B", "N", "B", ".", "B", "N", "B", ":", "b", "n", "b", "1", "a", ":", "1", "0", "0">>,
          <<":", "B", "N", "B", ".", "B", "N", "B", ":", "b", "n", "b", "1", "a", ":", "x", "1">>,
          <<":", "B", "N", "B", ".", "B", "N", "B", ":", ":", "7">>,
          <<":", "B", "N", "B", ".", "B", "N", "B", ":", "b", "n", "b", "1", "a">>,
          <<":", "t", "h", "o", "r", "1", "a">>,
          <<":", "t", "h", "o", "r">>,
          <<":", "5">>,
          <<":", "-", "5">>,
          <<":", "1", "2", "x">>,
          <<":", "9", "2", "2", "3", "3", "7", "2", "0", "3", "6", "8", "5", "4", "7", "7", "5", "8", "0", "8">>,
          <<":", "B", "N", "B", ".", "B", "N", "B", ":", "1", "2", "3", "4", "5", "6", "7", "8", "9", "0", "1", "2">>,
          <<":", "B", "N", "B", ".", "B", "N", "B", ":", "b", "n", "b", "1", "a", ":">>,
          <<":", "B", "T", "C", ".", "B", "T", "C", ":", "b", "c", "1", "q", ":", "2", "5", "0">> }
      TxIDChars == [i \in 1..64 |-> IF i % 2 = 0 THEN "a" ELSE "7"]
  IN {<<>>} \cup {f \o r : f \in MemoFirstFields,
                          r \in MemoRests \cup {<<":">> \o TxIDChars}}

MemoInit ==
  /\ ChainIdle /\ YggIdle /\ SignerIdle /\ StakeIdle /\ BtcIdle /\ GasIdle
  /\ StopIdle /\ TssIdle
  /\ memo \in MemoInputs
  /\ parsed = [err |-> "none"]
  /\ encoded = [Kind |-> "none"]

\* a transaction memo is handed to ParseMemo
ParseMemoCall ==
  /\ parsed.err = "none"
  /\ parsed' = ParseMemo(memo)
  /\ UNCHANGED <<chainVars, yggVars, signerVars, stakeVars, keygenVars, memo, encoded,
                 btcVars, gasVars, stopVars, tssVars>>

\* Memo.String: the memo types with a String method of their own, and
\* MemoBase.String for every other type
MemoString(m) ==
  CASE m.Kind = "OutboundMemo" ->
         <<"O", "U", "T", "B", "O", "U", "N", "D", ":">> \o m.TxID
    [] m.Kind = "RefundMemo" -> <<"R", "E", "F", "U", "N", "D", ":">> \o m.TxID
    [] m.Kind = "MigrateMemo" ->
         <<"M", "I", "G", "R", "A", "T", "E", ":">> \o FormatInt(m.BlockHeight)
    [] m.Kind = "RagnarokMemo" ->
         <<"R", "A", "G", "N", "A", "R", "O", "K", ":">> \o FormatInt(m.BlockHeight)
    [] OTHER -> <<>>

\* the memo ParseMemo returned is encoded with String, and the string is
\* the next memo handed to ParseMemo
StringCall ==
  /\ parsed.err = "nil"
  /\ encoded.Kind = "none"
  /\ encoded' = parsed.memo
  /\ memo' = MemoString(parsed.memo)
  /\ parsed' = [err |-> "none"]
  /\ UNCHANGED <<chainVars, yggVars, signerVars, stakeVars, keygenVars,
                 btcVars, gasVars, stopVars, tssVars>>

MemoNext == ParseMemoCall \/ StringCall

MemoSpec == MemoInit /\ [][MemoNext]_vars

\* ParseMemo has answered
Parsed == parsed.err # "none"

FirstField == Split(memo, ":")[1]

\* the Go type of the memo ParseMemo builds for each action
MemoKind ==
  "txStake" :> "StakeMemo" @@ "txUnstake" :> "UnstakeMemo" @@
  "txSwap" :> "SwapMemo" @@ "txOutbound" :> "OutboundMemo" @@
  "txAdd" :> "AddMemo" @@ "txGas" :> "GasMemo" @@ "txBond" :> "BondMemo" @@
  "txLeave" :> "LeaveMemo" @@ "txYggdrasilFund" :> "YggdrasilFundMemo" @@
  "txYggdrasilReturn" :> "YggdrasilReturnMemo" @@
  "txReserve" :> "ReserveMemo" @@ "txRefund" :> "RefundMemo" @@
  "txMigrate" :> "MigrateMemo" @@ "txRagnarok" :> "RagnarokMemo"

\* the first field of the memo is a spelling of an action, in any case
KnownAction == memo # <<>> /\ ToLower(FirstField) \in DOMAIN stringToTxTypeMap

\* the action the alias table gives for the first field of the memo
SelectedAction == stringToTxTypeMap[ToLower(FirstField)]

\* C18: ParseMemo decides the action from the first colon-delimited field
\* alone, compared without regard to case against the alias table: the empty
\* memo and a first field outside the table give an error and no memo; a
\* first field of the table is never refused as an unknown action, and the
\* memo returned for it is of the kind of the action the table names, so that
\* 'stake', 'ST' and '+' give a stake memo, 'withdraw', 'wd' and '-' an
\* unstake memo, 's' and '=' a swap memo
C18_ActionFromFirstField ==
  Parsed =>
    /\ ~KnownAction => parsed.err # "nil" /\ parsed.memo = noMemo
    /\ KnownAction =>
         /\ parsed.err \notin {"invalid tx type", "memo can't be empty"}
         /\ parsed.memo.Kind \in {"MemoBase", MemoKind[SelectedAction]}
         /\ parsed.err = "nil" => parsed.memo.Kind = MemoKind[SelectedAction]
    /\ FirstField \in {<<"s", "t", "a", "k", "e">>, <<"S", "T">>, <<"+">>} =>
         parsed.memo.Kind \in {"MemoBase", "StakeMemo"}
    /\ FirstField \in {<<"w", "i", "t", "h", "d", "r", "a", "w">>, <<"w", "d">>, <<"-">>} =>
         parsed.memo.Kind \in {"MemoBase", "UnstakeMemo"}
    /\ FirstField \in {<<"s">>, <<"=">>} =>
         parsed.memo.Kind \in {"MemoBase", "SwapMemo"}

\* the memo "ST:BNB.BNB" was parsed into a stake memo
C18_Witness ==
  /\ memo = <<"S", "T", ":", "B", "N", "B", ".", "B", "N", "B">>
  /\ parsed.err = "nil"
  /\ parsed.memo.Kind = "StakeMemo"

\* a memo whose first field is no alias was refused without a memo
UnknownActionRefused ==
  /\ FirstField = <<"s", "t", "a", "k", "e", "s">>
  /\ parsed.err = "invalid tx type"
  /\ parsed.memo = noMemo

\* C19: for every memo ParseMemo accepts, GetType of the returned memo is the
\* action selected by the first field, and IsType(t) is true for that action
\* and for no other of the fourteen
C19_TypedAction ==
  (Parsed /\ parsed.err = "nil") =>
    /\ GetType(parsed.memo) = SelectedAction
    /\ \A t \in TxTypes : IsType(parsed.memo, t) <=> t = SelectedAction

\* what the code keeps of C19: the memo is typed by its action for every
\* action but reserve, outbound and refund
TypedActionButThree ==
  (Parsed /\ parsed.err = "nil"
     /\ SelectedAction \notin {"txReserve", "txOutbound", "txRefund"}) =>
    /\ GetType(parsed.memo) = SelectedAction
    /\ \A t \in TxTypes : IsType(parsed.memo, t) <=> t = SelectedAction

\* the memo "reserve" was accepted and its memo answers to yggdrasil-
ReserveTypedAsYggdrasilReturn ==
  /\ memo = <<"r", "e", "s", "e", "r", "v", "e">>
  /\ parsed.err = "nil"
  /\ parsed.memo.Kind = "ReserveMemo"
  /\ IsType(parsed.memo, "txYggdrasilReturn")
  /\ ~IsType(parsed.memo, "txReserve")

\* an outbound memo with a transaction hash was accepted and its memo answers
\* to none of the fourteen actions
OutboundUntyped ==
  /\ ToLower(FirstField) = <<"o", "u", "t", "b", "o", "u", "n", "d">>
  /\ parsed.err = "nil"
  /\ parsed.memo.Kind = "OutboundMemo"
  /\ \A t \in TxTypes : ~IsType(parsed.memo, t)

\* the memo is an unstake memo with an asset that parses
UnstakeOfAsset ==
  /\ KnownAction /\ SelectedAction = "txUnstake"
  /\ Len(Split(memo, ":")) >= 2
  /\ NewAsset(Split(memo, ":")[2]).ok

\* C20: an unstake memo without a basis-points field is accepted with an
\* empty amount; with the field, it is accepted exactly when the field is an
\* unsigned integer of 1..10000, and the amount returned is then the field
C20_UnstakeBasisPoints ==
  (Parsed /\ UnstakeOfAsset) =>
    LET parts == Split(memo, ":")
        bp == ParseUint(parts[3])
    IN IF Len(parts) = 2
       THEN /\ parsed.err = "nil"
            /\ parsed.memo.Kind = "UnstakeMemo"
            /\ parsed.memo.Amount = <<>>
       ELSE IF bp.ok /\ bp.v \in 1..10000
       THEN /\ parsed.err = "nil"
            /\ parsed.memo.Kind = "UnstakeMemo"
            /\ parsed.memo.Amount = parts[3]
       ELSE parsed.err # "nil" /\ parsed.memo = noMemo

\* the memo "wd:BNB.BNB:10000" was accepted with the amount "10000"
C20_Witness ==
  /\ memo = <<"w", "d", ":", "B", "N", "B", ".", "B", "N", "B", ":",
              "1", "0", "0", "0", "0">>
  /\ parsed.err = "nil"
  /\ parsed.memo.Amount = <<"1", "0", "0", "0", "0">>

\* the unstake memos with the basis points 0 and 10001 were refused
UnstakeOutOfRangeRefused ==
  /\ UnstakeOfAsset
  /\ Len(Split(memo, ":")) = 3
  /\ Split(memo, ":")[3] \in {<<"0">>, <<"1", "0", "0", "0", "1">>}
  /\ parsed.err = "withdraw amount is invalid"

\* the memo is a swap memo with an asset that parses
SwapOfAsset ==
  /\ KnownAction /\ SelectedAction = "txSwap"
  /\ Len(Split(memo, ":")) >= 2
  /\ NewAsset(Split(memo, ":")[2]).ok

\* C21: a swap memo with an asset needs no other field: a destination
\* field that is missing or empty gives the empty address and a price-limit
\* field that is missing or empty gives the slip limit 0; a destination that
\* is not empty and no valid address, or a price limit that is not empty and
\* no unsigned integer, is refused; every other swap memo is accepted with
\* the destination and the limit of its fields
C21_SwapOptionalFields ==
  (Parsed /\ SwapOfAsset) =>
    LET parts == Split(memo, ":")
        dest == IF Len(parts) >= 3 THEN parts[3] ELSE <<>>
        limit == IF Len(parts) >= 4 THEN parts[4] ELSE <<>>
    IN IF (dest # <<>> /\ ~NewAddress(dest)) \/ (limit # <<>> /\ ~ParseUint(limit).ok)
       THEN parsed.err # "nil" /\ parsed.memo = noMemo
       ELSE /\ parsed.err = "nil"
            /\ parsed.memo.Kind = "SwapMemo"
            /\ parsed.memo.Destination = dest
            /\ parsed.memo.SlipLimit = IF limit = <<>> THEN 0 ELSE ParseUint(limit).v

\* the memo "=:BNB.BNB::7" was accepted: no destination, the slip limit 7
C21_Witness ==
  /\ memo = <<"=", ":", "B", "N", "B", ".", "B", "N", "B", ":", ":", "7">>
  /\ parsed.err = "nil"
  /\ parsed.memo.Destination = <<>>
  /\ parsed.memo.SlipLimit = 7

\* the swap memo with the asset alone was accepted
SwapAssetOnly ==
  /\ memo = <<"s", "w", "a", "p", ":", "B", "N", "B", ".", "B", "N", "B">>
  /\ parsed.err = "nil"
  /\ parsed.memo.Destination = <<>> /\ parsed.memo.SlipLimit = 0

\* a swap memo with a price limit that is no number was refused
SwapBadLimitRefused ==
  /\ SwapOfAsset
  /\ Len(Split(memo, ":")) = 4 /\ Split(memo, ":")[4] = <<"x", "1">>
  /\ parsed.err = "invalid slip limit"

\* the memo is a stake memo
StakeAction == KnownAction /\ SelectedAction = "txStake"

\* the memo is a stake memo that names an asset of another chain than the
\* one RUNE is on
StakeOfOtherChain ==
  /\ StakeAction
  /\ Len(Split(memo, ":")) >= 2
  /\ NewAsset(Split(memo, ":")[2]).ok
  /\ NewAsset(Split(memo, ":")[2]).asset.Chain # <<"B", "N", "B">>

\* C22: a stake memo has no mandatory field, so the action alone is
\* accepted; a stake memo that names an asset of a non-RUNE chain is refused
\* without an address field and accepted with a valid address
C22_StakeShape ==
  (Parsed /\ StakeAction) =>
    LET parts == Split(memo, ":")
    IN /\ Len(parts) = 1 => parsed.err = "nil" /\ parsed.memo.Kind = "StakeMemo"
       /\ (StakeOfOtherChain /\ Len(parts) = 2) => parsed.err # "nil"
       /\ (StakeOfOtherChain /\ Len(parts) >= 3 /\ NewAddress(parts[3])) =>
            /\ parsed.err = "nil"
            /\ parsed.memo.Kind = "StakeMemo"
            /\ parsed.memo.Destination = parts[3]

\* what the code keeps of C22: with an asset that parses, a stake memo of the
\* RUNE chain is accepted, and one of another chain is accepted exactly with
\* a valid address in its third field
StakeAddressRule ==
  (Parsed /\ StakeAction /\ Len(Split(memo, ":")) >= 2
     /\ NewAsset(Split(memo, ":")[2]).ok) =>
    LET parts == Split(memo, ":")
    IN IF StakeOfOtherChain /\ ~(Len(parts) >= 3 /\ NewAddress(parts[3]))
       THEN parsed.err # "nil" /\ parsed.memo = noMemo
       ELSE parsed.err = "nil" /\ parsed.memo.Kind = "StakeMemo"

\* the memo "stake" was refused for its missing asset
StakeAloneRefused ==
  /\ memo = <<"s", "t", "a", "k", "e">>
  /\ parsed.err = "cannot parse given memo"
  /\ parsed.memo = noMemo

\* the memo "+:BTC.BTC:bc1q" was accepted with its address, and the memo
\* "+:BTC.BTC" is among the memos
StakeOtherChainAccepted ==
  /\ memo = <<"+", ":", "B", "T", "C", ".", "B", "T", "C", ":", "b", "c", "1", "q">>
  /\ parsed.err = "nil"
  /\ parsed.memo.Destination = <<"b", "c", "1", "q">>

\* a bech32 address of the node chain
ValidNodeAddress(s) == HasPrefix(s, <<"t", "h", "o", "r", "1">>)

\* the mandatory field the action of the memo needs is missing or does not
\* parse: the tx id of outbound and refund, the node address of bond, the
\* block height of migrate and ragnarok
MandatoryFieldMissing ==
  LET parts == Split(memo, ":")
  IN \/ /\ SelectedAction \in {"txOutbound", "txRefund"}
        /\ (Len(parts) < 2 \/ ~NewTxID(parts[2]).ok)
     \/ /\ SelectedAction = "txBond"
        /\ (Len(parts) < 2 \/ ~ValidNodeAddress(parts[2]))
     \/ /\ SelectedAction \in {"txMigrate", "txRagnarok"}
        /\ (Len(parts) < 2 \/ ~ParseInt(parts[2]).ok)

\* C23: ParseMemo returns an error for an outbound or refund memo without a
\* tx id, a bond memo without a valid node address and a migrate or ragnarok
\* memo without a block height that parses as a 64-bit integer; leave,
\* yggdrasil+, yggdrasil-, reserve and gas memos of the action alone are
\* accepted
C23_MandatoryFields ==
  (Parsed /\ KnownAction) =>
    /\ MandatoryFieldMissing => parsed.err # "nil"
    /\ (/\ SelectedAction \in {"txLeave", "txYggdrasilFund", "txYggdrasilReturn",
                                "txReserve", "txGas"}
        /\ Len(Split(memo, ":")) = 1) =>
         parsed.err = "nil" /\ parsed.memo.Kind = MemoKind[SelectedAction]

\* what the code keeps of C23: everything but the bond memo whose address
\* field is blank
MandatoryFieldsButBlankBond ==
  (Parsed /\ KnownAction
     /\ ~(SelectedAction = "txBond" /\ Len(Split(memo, ":")) >= 2
          /\ \A i \in 1..Len(Split(memo, ":")[2]) : Split(memo, ":")[2][i] = " ")) =>
    /\ MandatoryFieldMissing => parsed.err # "nil"
    /\ (/\ SelectedAction \in {"txLeave", "txYggdrasilFund", "txYggdrasilReturn",
                                "txReserve", "txGas"}
        /\ Len(Split(memo, ":")) = 1) =>
         parsed.err = "nil" /\ parsed.memo.Kind = MemoKind[SelectedAction]

\* the memo "bond:" was accepted with an empty node address
BlankBondAccepted ==
  /\ memo = <<"b", "o", "n", "d", ":">>
  /\ parsed.err = "nil"
  /\ parsed.memo.Kind = "BondMemo"
  /\ parsed.memo.NodeAddress = <<>>

\* the memo "migrate" was refused for its missing block height
MigrateAloneRefused ==
  /\ memo = <<"m", "i", "g", "r", "a", "t", "e">>
  /\ parsed.err = "not enough parameters"

\* a memo was encoded and the encoding was parsed
RoundTripDone == encoded.Kind # "none" /\ Parsed

\* C24: for every memo value of every action kind, ParseMemo of its String
\* succeeds and returns a memo of the same action with the same fields
C24_RoundTrip ==
  RoundTripDone => parsed.err = "nil" /\ parsed.memo = encoded

\* what the code keeps of C24: the round trip of the four memo types that
\* have a String method
RoundTripOfFour ==
  (RoundTripDone /\ encoded.Kind \in {"OutboundMemo", "RefundMemo",
                                       "MigrateMemo", "RagnarokMemo"}) =>
    parsed.err = "nil" /\ parsed.memo = encoded

\* every other memo type encodes to the empty string, which does not parse
EmptyEncodingElsewhere ==
  (RoundTripDone /\ encoded.Kind \notin {"OutboundMemo", "RefundMemo",
                                          "MigrateMemo", "RagnarokMemo"}) =>
    memo = <<>> /\ parsed.err = "memo can't be empty" /\ parsed.memo = noMemo

\* a swap memo with its asset, destination and limit was encoded to the
\* empty string and the parse of it failed
SwapRoundTripFails ==
  /\ RoundTripDone
  /\ encoded.Kind = "SwapMemo" /\ encoded.SlipLimit = 100
  /\ memo = <<>>
  /\ parsed.err = "memo can't be empty"

\* a migrate memo of the block height -5 came back from "MIGRATE:-5"
MigrateRoundTrip ==
  /\ RoundTripDone
  /\ encoded.Kind = "MigrateMemo" /\ encoded.BlockHeight = 0 - 5
  /\ memo = <<"M", "I", "G", "R", "A", "T", "E", ":", "-", "5">>
  /\ parsed.memo = encoded

\* ---------------------------------------------------------------------
\* Pool units of a stake. The balances and the stakes are whole multiples of
\* ONE and are counted in ONE; the units that come out are kept as whole ONEs
\* and base units, [one |-> n, base |-> b] being n * One + b.

One == 100000000

ZeroUint == [one |-> 0, base |-> 0]

RECURSIVE LongDivision(_, _, _, _)
\* k more decimal digits of rem / d after the digits acc, and the remainder
\* that is left
LongDivision(rem, d, k, acc) ==
  IF k = 0 THEN <<acc, rem>>
  ELSE LongDivision((rem * 10) % d, d, k - 1, acc * 10 + (rem * 10) \div d)

\* One * n / d cut off below the base unit
MulOneQuo(n, d) == [one |-> n \div d, base |-> LongDivision(n % d, d, 8, 0)[1]]

\* One * n / d rounded to the nearest base unit
MulOneQuoRound(n, d) ==
  LET q == LongDivision(n % d, d, 8, 0)
      b == q[1] + (IF 2 * q[2] >= d THEN 1 ELSE 0)
  IN IF b = One THEN [one |-> n \div d + 1, base |-> 0]
     ELSE [one |-> n \div d, base |-> b]

\* the mutant of calculatePoolUnits: no check of the totals, and the first
\* stake into an empty pool is given the larger of its two sides as units
calculatePoolUnits_Seeding(oldPoolUnits, poolRune, poolAsset, stakeRune, stakeAsset) ==
  LET stakeUnits == [one |-> IF stakeRune > stakeAsset THEN stakeRune ELSE stakeAsset,
                     base |-> 0]
  IN [err |-> "nil",
      poolUnits |-> [stakeUnits EXCEPT !.one = oldPoolUnits + @],
      stakerUnits |-> stakeUnits]

\* calculatePoolUnits: the new pool units and the units of the staker,
\* ((R + A) * (r * A + R * a)) / (4 * R * A) over the balances after the stake
calculatePoolUnits(oldPoolUnits, poolRune, poolAsset, stakeRune, stakeAsset) ==
  IF stakeRune + poolRune = 0
  THEN [err |-> "total RUNE in the pool is zero",
        poolUnits |-> ZeroUint, stakerUnits |-> ZeroUint]
  ELSE IF stakeAsset + poolAsset = 0
  THEN [err |-> "total asset in the pool is zero",
        poolUnits |-> ZeroUint, stakerUnits |-> ZeroUint]
  ELSE LET poolRuneAfter == poolRune + stakeRune
           poolAssetAfter == poolAsset + stakeAsset
           nominator1 == poolRuneAfter + poolAssetAfter
           nominator2 == stakeRune * poolAssetAfter + poolRuneAfter * stakeAsset
           denominator == 4 * poolRuneAfter * poolAssetAfter
           stakeUnits == MulOneQuoRound(nominator1 * nominator2, denominator)
       IN [err |-> "nil",
           poolUnits |-> [stakeUnits EXCEPT !.one = oldPoolUnits + @],
           stakerUnits |-> stakeUnits]

\* the pool staker of the tests: total stakers of avg units each
makePoolStaker(total, avg) ==
  [TotalUnits |-> avg * total, Stakers |-> [i \in 1..total |-> [Units |-> avg]]]

\* validateStakeAmount: up to stakeAmtInterval stakers there is no lower
\* limit; beyond, the units have to reach the average stake times the number
\* of intervals the stakers fill plus a tenth
validateStakeAmount(stakers, stakerUnits, stakeAmtInterval) ==
  LET stakerCount == Len(stakers.Stakers)
      avgStake == stakers.TotalUnits \div stakerCount
      minStakerAmt ==
        IF stakerCount <= stakeAmtInterval THEN 0
        ELSE (avgStake * (10 * stakerCount + stakeAmtInterval)) \div (10 * stakeAmtInterval)
  IN IF stakerUnits < minStakerAmt THEN "stake too small" ELSE "nil"

\* the stakes: pools and stakes of the tests and around them, in ONE; the
\* pool stakers of the tests as <<total, avg>>, the units of the staker in
\* base units, and the interval of the tests
StakeInit ==
  /\ ChainIdle /\ YggIdle /\ SignerIdle /\ MemoIdle /\ BtcIdle /\ GasIdle
  /\ StopIdle /\ TssIdle
  /\ stored = <<>>
  /\ stakeArgs \in [oldPoolUnits : {0, 100, 500}, poolRune : {0, 100, 500},
                    poolAsset : {0, 100, 500}, stakeRune : {0, 100, 345},
                    stakeAsset : {0, 100, 234},
                    stakers : {<<50, 100000>>, <<150, 20000>>, <<300, 100000>>},
                    stakerUnits : {10000, 20000, 100000, 200000, 400000},
                    stakeAmtInterval : {100}]
  /\ stakeRes = [units |-> [err |-> "none"], valid |-> "none"]

calculatePoolUnitsCall ==
  /\ stakeRes.units.err = "none"
  /\ stakeRes' = [stakeRes EXCEPT !.units =
       calculatePoolUnits(stakeArgs.oldPoolUnits, stakeArgs.poolRune, stakeArgs.poolAsset,
                          stakeArgs.stakeRune, stakeArgs.stakeAsset)]
  /\ UNCHANGED <<chainVars, yggVars, signerVars, memoVars, stakeArgs, keygenVars,
                 btcVars, gasVars, stopVars, tssVars>>

validateStakeAmountCall ==
  /\ stakeRes.valid = "none"
  /\ stakeRes' = [stakeRes EXCEPT !.valid =
       validateStakeAmount(makePoolStaker(stakeArgs.stakers[1], stakeArgs.stakers[2]),
                           stakeArgs.stakerUnits, stakeArgs.stakeAmtInterval)]
  /\ UNCHANGED <<chainVars, yggVars, signerVars, memoVars, stakeArgs, keygenVars,
                 btcVars, gasVars, stopVars, tssVars>>

StakeNext == calculatePoolUnitsCall \/ validateStakeAmountCall

StakeSpec == StakeInit /\ [][StakeNext]_vars

\* calculatePoolUnits has answered
Calculated == stakeRes.units.err # "none"

\* the pool of the stake is empty
EmptyPool ==
  stakeArgs.oldPoolUnits = 0 /\ stakeArgs.poolRune = 0 /\ stakeArgs.poolAsset = 0

\* the pool and the stake are the given ones, in ONE
StakeOf(U, R, A, r, a) ==
  /\ stakeArgs.oldPoolUnits = U /\ stakeArgs.poolRune = R /\ stakeArgs.poolAsset = A
  /\ stakeArgs.stakeRune = r /\ stakeArgs.stakeAsset = a

\* the model answers the cases of TestCalculatePoolUnits and the first stake
\* of TestStake as the tests expect
PoolUnitsAsTested ==
  Calculated =>
    /\ StakeOf(0, 0, 0, 0, 100) =>
         stakeRes.units = [err |-> "total RUNE in the pool is zero",
                           poolUnits |-> ZeroUint, stakerUnits |-> ZeroUint]
    /\ StakeOf(0, 0, 0, 100, 0) =>
         stakeRes.units = [err |-> "total asset in the pool is zero",
                           poolUnits |-> ZeroUint, stakerUnits |-> ZeroUint]
    /\ StakeOf(0, 0, 0, 100, 100) =>
         stakeRes.units = [err |-> "nil", poolUnits |-> [one |-> 100, base |-> 0],
                           stakerUnits |-> [one |-> 100, base |-> 0]]
    /\ StakeOf(500, 500, 500, 345, 234) =>
         stakeRes.units = [err |-> "nil", poolUnits |-> [one |-> 787, base |-> 1684859],
                           stakerUnits |-> [one |-> 287, base |-> 1684859]]
    /\ StakeOf(100, 0, 100, 100, 100) =>
         stakeRes.units.stakerUnits = [one |-> 112, base |-> 50000000]
    /\ StakeOf(100, 100, 100, 100, 100) =>
         stakeRes.units.poolUnits = [one |-> 200, base |-> 0]

\* C25: into an empty pool, a stake without RUNE fails with 'total RUNE in
\* the pool is zero' and a stake without asset with 'total asset in the pool
\* is zero', both with 0 pool units and 0 staker units; a stake of one side
\* only into a pool with two positive balances succeeds
C25_OneSidedFirstStake ==
  Calculated =>
    /\ (EmptyPool /\ stakeArgs.stakeRune = 0 /\ stakeArgs.stakeAsset > 0) =>
         stakeRes.units = [err |-> "total RUNE in the pool is zero",
                           poolUnits |-> ZeroUint, stakerUnits |-> ZeroUint]
    /\ (EmptyPool /\ stakeArgs.stakeAsset = 0 /\ stakeArgs.stakeRune > 0) =>
         stakeRes.units = [err |-> "total asset in the pool is zero",
                           poolUnits |-> ZeroUint, stakerUnits |-> ZeroUint]
    /\ (/\ stakeArgs.poolRune > 0 /\ stakeArgs.poolAsset > 0
        /\ (stakeArgs.stakeRune = 0) # (stakeArgs.stakeAsset = 0)) =>
         stakeRes.units.err = "nil"

\* the stake of 100 ONE asset and no RUNE into the empty pool has failed
C25_Witness ==
  /\ StakeOf(0, 0, 0, 0, 100)
  /\ stakeRes.units.err = "total RUNE in the pool is zero"

\* the stake of 100 ONE RUNE and no asset into the pool of 100 ONE on each
\* side was given units
OneSidedStakeGivenUnits ==
  /\ StakeOf(100, 100, 100, 100, 0)
  /\ stakeRes.units.err = "nil"
  /\ stakeRes.units.stakerUnits.one > 0

\* C26: for a pool of U > 0 units, the units a stake is given are
\* U * (r*A + a*R) / (2*R*A + r*A + a*R), rounded toward zero, and the new
\* pool units are U plus these
C26_IssuanceFormula ==
  (Calculated /\ stakeRes.units.err = "nil" /\ stakeArgs.oldPoolUnits > 0) =>
    LET U == stakeArgs.oldPoolUnits
        R == stakeArgs.poolRune
        A == stakeArgs.poolAsset
        r == stakeArgs.stakeRune
        a == stakeArgs.stakeAsset
        units_added == MulOneQuo(U * (r * A + a * R), 2 * R * A + r * A + a * R)
    IN 2 * R * A + r * A + a * R > 0 =>
         /\ stakeRes.units.stakerUnits = units_added
         /\ stakeRes.units.poolUnits = [units_added EXCEPT !.one = U + @]

\* the second stake of TestCalculatePoolUnits was given 28701684859 units,
\* where the formula of C26 gives 18334388853
SecondStakeOffFormula ==
  /\ StakeOf(500, 500, 500, 345, 234)
  /\ stakeRes.units.err = "nil"
  /\ stakeRes.units.stakerUnits = [one |-> 287, base |-> 1684859]
  /\ MulOneQuo(500 * (345 * 500 + 234 * 500), 2 * 500 * 500 + 345 * 500 + 234 * 500)
       = [one |-> 183, base |-> 34388853]

\* C27: the symmetric first stake of 100 ONE on each side into the empty pool
\* gives (100 ONE, 100 ONE); 345 ONE RUNE and 234 ONE asset into the pool of
\* 500 ONE RUNE, 500 ONE asset and 500 ONE units gives (78701684859,
\* 28701684859); and the pool units returned are always the old pool units
\* plus the staker units returned
C27_ReferenceValues ==
  (Calculated /\ stakeRes.units.err = "nil") =>
    /\ StakeOf(0, 0, 0, 100, 100) =>
         /\ stakeRes.units.poolUnits = [one |-> 100, base |-> 0]
         /\ stakeRes.units.stakerUnits = [one |-> 100, base |-> 0]
    /\ StakeOf(500, 500, 500, 345, 234) =>
         /\ stakeRes.units.poolUnits = [one |-> 787, base |-> 1684859]
         /\ stakeRes.units.stakerUnits = [one |-> 287, base |-> 1684859]
    /\ stakeRes.units.poolUnits =
         [one |-> stakeArgs.oldPoolUnits + stakeRes.units.stakerUnits.one,
          base |-> stakeRes.units.stakerUnits.base]

\* the second stake of the tests has been calculated
C27_Witness ==
  /\ StakeOf(500, 500, 500, 345, 234)
  /\ stakeRes.units.err = "nil"
  /\ stakeRes.units.poolUnits.one = 787

\* validateStakeAmount has answered
Validated == stakeRes.valid # "none"

\* the pool staker and the units are the given ones
GuardOf(total, avg, units) ==
  stakeArgs.stakers = <<total, avg>> /\ stakeArgs.stakerUnits = units

\* the model answers the cases of TestValidateAmount as the test expects
ValidateAmountAsTested ==
  Validated =>
    /\ GuardOf(50, 100000, 100000) => stakeRes.valid = "nil"
    /\ GuardOf(150, 20000, 10000) => stakeRes.valid # "nil"
    /\ GuardOf(150, 20000, 20000) => stakeRes.valid # "nil"
    /\ GuardOf(150, 20000, 100000) => stakeRes.valid = "nil"
    /\ GuardOf(300, 100000, 10000) => stakeRes.valid # "nil"
    /\ GuardOf(300, 100000, 200000) => stakeRes.valid # "nil"
    /\ GuardOf(300, 100000, 400000) => stakeRes.valid = "nil"

\* a median of the units of the stakers
MedianUnits(stakers) ==
  LET n == Len(stakers.Stakers)
      below(m) == Cardinality({i \in 1..n : stakers.Stakers[i].Units <= m})
      above(m) == Cardinality({i \in 1..n : stakers.Stakers[i].Units >= m})
  IN CHOOSE m \in {stakers.Stakers[i].Units : i \in 1..n} :
       2 * below(m) >= n /\ 2 * above(m) >= n

\* C28: validateStakeAmount accepts a stake if and only if the units of the
\* staker are at least the median of the units of the stakers divided by the
\* interval factor
C28_MinimumStake ==
  Validated =>
    (stakeRes.valid = "nil" <=>
       stakeArgs.stakerUnits * stakeArgs.stakeAmtInterval >=
         MedianUnits(makePoolStaker(stakeArgs.stakers[1], stakeArgs.stakers[2])))

\* among 150 stakers of 20000 units each, with the interval 100, the stake
\* of 20000 units was refused
MedianStakeRefused ==
  /\ GuardOf(150, 20000, 20000)
  /\ stakeArgs.stakeAmtInterval = 100
  /\ stakeRes.valid = "stake too small"

\* ---------------------------------------------------------------------
\* The keygen store under its callers: records are set and looked up by
\* height. stored keeps, for every height, the record last handed to
\* SetKeygens.

\* the heights of the records, among them the one of TestGetKeygen, and
\* their groups of pubkeys
KeygenHeights == {0, 1, 9, 11, 21, 1718}

KeygenInit ==
  /\ ChainIdle /\ YggIdle /\ SignerIdle /\ MemoIdle /\ StakeIdle /\ BtcIdle /\ GasIdle
  /\ StopIdle /\ TssIdle

\* a caller stores a Keygens record
SetKeygensCall(kg) ==
  /\ keygens' = SetKeygens(keygens, kg)
  /\ stored' = (kg.Height :> kg) @@ stored
  /\ lastOp' = [op |-> "SetKeygens", height |-> kg.Height, err |-> "nil", pk |-> 0]
  /\ UNCHANGED <<height, version, migrateInterval, vaults, nodes, txout, nextKey,
                 deposits, submitted, pre, yggVars, signerVars, memoVars,
                 stakeArgs, stakeRes, btcVars, gasVars, stopVars, tssVars>>

\* a caller looks up the Keygens record of a height
GetKeygensCall(h) ==
  /\ lastOp' = [op |-> "GetKeygens", height |-> h, err |-> "nil", pk |-> 0,
                kg |-> GetKeygens(keygens, h)]
  /\ UNCHANGED <<height, version, migrateInterval, vaults, nodes, keygens, txout,
                 nextKey, deposits, submitted, pre, yggVars, signerVars, memoVars,
                 stakeVars, keygenVars, btcVars, gasVars, stopVars, tssVars>>

KeygenNext ==
  \/ \E h \in KeygenHeights, g \in {<<>>, <<<<1, 2>>>>, <<<<1>>, <<2>>>>} :
       SetKeygensCall([Height |-> h, Keygens |-> g])
  \/ \E h \in KeygenHeights : GetKeygensCall(h)

KeygenSpec == KeygenInit /\ [][KeygenNext]_vars

\* C29: GetKeygens(h) returns, without an error, a Keygens record of the
\* height h: the record last stored by SetKeygens for h, its groups as they
\* were stored, or the empty record of h when none was stored
C29_KeygenLookup ==
  lastOp.op = "GetKeygens" =>
    /\ lastOp.err = "nil"
    /\ lastOp.kg.Height = lastOp.height
    /\ lastOp.kg = IF lastOp.height \in DOMAIN stored THEN stored[lastOp.height]
                   ELSE NewKeygens(lastOp.height)

\* the record of height 1718 was looked up with its two groups, while
\* records of the heights 1, 11 and 21 are stored as well
C29_Witness ==
  /\ lastOp.op = "GetKeygens" /\ lastOp.height = 1718
  /\ lastOp.kg = [Height |-> 1718, Keygens |-> <<<<1>>, <<2>>>>]
  /\ {1, 11, 21} \subseteq DOMAIN stored

\* the lookup of a height without a record gave the empty record, while
\* another height has one
EmptyKeygensLookup ==
  /\ lastOp.op = "GetKeygens" /\ lastOp.height = 11
  /\ lastOp.kg = NewKeygens(11)
  /\ 1 \in DOMAIN stored /\ 11 \notin DOMAIN stored

\* C30: an outbound item is signed and broadcast only if the pubkey manager
\* holds its vault pubkey, its to-address is not empty and its out_hash is
\* empty; so an item that carries an out_hash is never sent again
C30_SignerFilter ==
  \A t \in SignerTxOuts : \A i \in 1..Len(t.TxArray) :
    sent[<<t.Height, i>>] > 0 =>
      /\ t.TxArray[i].VaultPubKey \in pkm
      /\ t.TxArray[i].To # ""
      /\ t.TxArray[i].OutHash = ""

\* processTxnOut is through with the TxOut of four items: the item of the
\* signer's own vault went out; the item of another vault, the item without
\* a to-address and the item with an out_hash did not
C30_Witness ==
  /\ proc.pc = "recv" /\ ch = <<>>
  /\ <<"1", "4">> \notin DOMAIN storage
  /\ ~\E t \in pending : t.Height = <<"1", "4">>
  /\ sent[<<<<"1", "4">>, 1>>] = 1
  /\ \A i \in 2..4 : sent[<<<<"1", "4">>, i>>] = 0

\* ------------------------------------------- bitcoin client: block metas
\* strings.EqualFold on the keys of unspent outputs
EqualFold(a, b) == ToLower(a) = ToLower(b)

\* the keys unspent outputs are known by, and the outputs the scanner finds
UTXOKeys == {<<"a", "b">>, <<"A", "B">>, <<"c", "d">>}

MaxUTXOs == 3

\* BlockMeta.AddUTXO appends the output
AddUTXO(b, utxo) ==
  [b EXCEPT !.UnspentTransactionOutputs = Append(@, utxo)]

\* BlockMeta.RemoveUTXO drops the first output whose key folds to the key
RemoveUTXO(b, key) ==
  LET utxos == b.UnspentTransactionOutputs
      found == {idx \in 1..Len(utxos) : EqualFold(utxos[idx].key, key)}
  IN  IF found = {} THEN b
      ELSE LET idxToDelete == CHOOSE idx \in found : \A j \in found : idx <= j
           IN  [b EXCEPT !.UnspentTransactionOutputs =
                  SubSeq(utxos, 1, idxToDelete - 1)
                    \o SubSeq(utxos, idxToDelete + 1, Len(utxos))]

BlockMetaInit ==
  /\ ChainIdle /\ YggIdle /\ SignerIdle /\ MemoIdle /\ StakeIdle /\ BtcIdle /\ GasIdle
  /\ StopIdle /\ TssIdle

\* the scanner adds an output it found to the block meta
AddUTXOCall(utxo) ==
  /\ Len(blockMeta.UnspentTransactionOutputs) < MaxUTXOs
  /\ blockMeta' = AddUTXO(blockMeta, utxo)
  /\ lastOp' = [op |-> "AddUTXO", height |-> blockMeta.Height, err |-> "nil", pk |-> 0]
  /\ UNCHANGED <<height, version, migrateInterval, vaults, nodes, keygens, txout,
                 nextKey, deposits, submitted, pre, yggVars, signerVars, memoVars,
                 stakeVars, keygenVars, db, gasVars, stopVars, tssVars>>

\* the client spends an output and removes it from the block meta
RemoveUTXOCall(key) ==
  /\ blockMeta' = RemoveUTXO(blockMeta, key)
  /\ lastOp' = [op |-> "RemoveUTXO", height |-> blockMeta.Height, err |-> "nil",
                pk |-> 0, key |-> key,
                before |-> blockMeta.UnspentTransactionOutputs]
  /\ UNCHANGED <<height, version, migrateInterval, vaults, nodes, keygens, txout,
                 nextKey, deposits, submitted, pre, yggVars, signerVars, memoVars,
                 stakeVars, keygenVars, db, gasVars, stopVars, tssVars>>

BlockMetaNext ==
  \/ \E k \in UTXOKeys, v \in {1, 2} : AddUTXOCall([key |-> k, Value |-> v])
  \/ \E k \in UTXOKeys : RemoveUTXOCall(k)

BlockMetaSpec == BlockMetaInit /\ [][BlockMetaNext]_vars

\* the outputs of a list whose key folds to the key
Matching(utxos, key) == SelectSeq(utxos, LAMBDA item : EqualFold(item.key, key))

Removed == lastOp.op = "RemoveUTXO"

\* C31: after RemoveUTXO(key) the block meta holds no output of that key,
\* whatever AddUTXO and RemoveUTXO calls came before; the other outputs are
\* kept in their order, and removing a key that is not there changes nothing
C31_RemoveUTXO ==
  Removed =>
    /\ Matching(blockMeta.UnspentTransactionOutputs, lastOp.key) = <<>>
    /\ blockMeta.UnspentTransactionOutputs
         = SelectSeq(lastOp.before, LAMBDA item : ~EqualFold(item.key, lastOp.key))
    /\ (Matching(lastOp.before, lastOp.key) = <<>> =>
          blockMeta.UnspentTransactionOutputs = lastOp.before)

\* an output added twice is still there after it was removed once
RemovedOutputRemains ==
  /\ Removed
  /\ Len(Matching(lastOp.before, lastOp.key)) = 2
  /\ Len(Matching(blockMeta.UnspentTransactionOutputs, lastOp.key)) = 1

\* what RemoveUTXO does: the first output of the key goes, the others stay in
\* their order, and a key that is not there changes nothing
RemoveUTXOFirstOnly ==
  Removed =>
    /\ Len(blockMeta.UnspentTransactionOutputs)
         = Len(lastOp.before) - (IF Matching(lastOp.before, lastOp.key) = <<>> THEN 0 ELSE 1)
    /\ SelectSeq(blockMeta.UnspentTransactionOutputs,
                 LAMBDA item : ~EqualFold(item.key, lastOp.key))
         = SelectSeq(lastOp.before, LAMBDA item : ~EqualFold(item.key, lastOp.key))
    /\ Matching(blockMeta.UnspentTransactionOutputs, lastOp.key)
         = IF Matching(lastOp.before, lastOp.key) = <<>> THEN <<>>
           ELSE Tail(Matching(lastOp.before, lastOp.key))

\* ------------------------------------- bitcoin client: block meta store
PrefixBlocMeta == <<"b", "l", "o", "c", "k", "m", "e", "t", "a", "-">>

\* getBlockMetaKey: the prefix and the height in decimal
getBlockMetaKey(h) == PrefixBlocMeta \o FormatInt(h)

\* json.Marshal of a block meta and json.Unmarshal of the stored bytes
MarshalBlockMeta(b) == <<b.Height, b.UnspentTransactionOutputs>>

UnmarshalBlockMeta(buf) == [Height |-> buf[1], UnspentTransactionOutputs |-> buf[2]]

\* GetBlockMeta: the block meta stored for the height, or nil
GetBlockMeta(store, h) ==
  IF getBlockMetaKey(h) \in DOMAIN store
  THEN [nil |-> FALSE, meta |-> UnmarshalBlockMeta(store[getBlockMetaKey(h)])]
  ELSE [nil |-> TRUE]

\* SaveBlockMeta: the block meta goes under the key of the height
SaveBlockMeta(store, h, b) ==
  [k \in DOMAIN store \cup {getBlockMetaKey(h)} |->
     IF k = getBlockMetaKey(h) THEN MarshalBlockMeta(b) ELSE store[k]]

\* PruneBlockMeta: every stored block meta whose Height is not above the
\* height is deleted
PruneBlockMeta(store, h) ==
  LET targetToDelete ==
        {k \in DOMAIN store :
           /\ HasPrefix(k, PrefixBlocMeta)
           /\ UnmarshalBlockMeta(store[k]).Height <= h}
  IN  [k \in DOMAIN store \ targetToDelete |-> store[k]]

\* the heights of the blocks the client scans
MetaHeights == {1, 2, 3, 10}

BlockStoreInit ==
  /\ ChainIdle /\ YggIdle /\ SignerIdle /\ MemoIdle /\ StakeIdle /\ BtcIdle /\ GasIdle
  /\ StopIdle /\ TssIdle

\* the client saves the block meta of a block it scanned
SaveBlockMetaCall(h, utxos) ==
  /\ blockMeta' = [Height |-> h, UnspentTransactionOutputs |-> utxos]
  /\ db' = SaveBlockMeta(db, h, blockMeta')
  /\ lastOp' = [op |-> "SaveBlockMeta", height |-> h, err |-> "nil", pk |-> 0]
  /\ UNCHANGED <<height, version, migrateInterval, vaults, nodes, keygens, txout,
                 nextKey, deposits, submitted, pre, yggVars, signerVars, memoVars,
                 stakeVars, keygenVars, gasVars, stopVars, tssVars>>

\* the client reads the block meta of a height
GetBlockMetaCall(h) ==
  /\ lastOp' = [op |-> "GetBlockMeta", height |-> h, err |-> "nil", pk |-> 0,
                got |-> GetBlockMeta(db, h)]
  /\ UNCHANGED <<height, version, migrateInterval, vaults, nodes, keygens, txout,
                 nextKey, deposits, submitted, pre, yggVars, signerVars, memoVars,
                 stakeVars, keygenVars, btcVars, gasVars, stopVars, tssVars>>

\* the client prunes the store
PruneBlockMetaCall(h) ==
  /\ db' = PruneBlockMeta(db, h)
  /\ lastOp' = [op |-> "PruneBlockMeta", height |-> h, err |-> "nil", pk |-> 0,
                before |-> db]
  /\ UNCHANGED <<height, version, migrateInterval, vaults, nodes, keygens, txout,
                 nextKey, deposits, submitted, pre, yggVars, signerVars, memoVars,
                 stakeVars, keygenVars, blockMeta, gasVars, stopVars, tssVars>>

BlockStoreNext ==
  \/ \E h \in MetaHeights, u \in {<<>>, <<[key |-> <<"a", "b">>, Value |-> 1]>>} :
       SaveBlockMetaCall(h, u)
  \/ \E h \in MetaHeights : GetBlockMetaCall(h)
  \/ \E h \in MetaHeights : PruneBlockMetaCall(h)

BlockStoreSpec == BlockStoreInit /\ [][BlockStoreNext]_vars

Pruned == lastOp.op = "PruneBlockMeta"

\* the block metas that were in the store before the pruning
MetasBefore == {UnmarshalBlockMeta(lastOp.before[k]) : k \in DOMAIN lastOp.before}

\* C32: PruneBlockMeta(h) deletes exactly the stored block metas of a height
\* below h: every block meta of height h or above is still returned by
\* GetBlockMeta
C32_PruneBelow ==
  Pruned =>
    \A b \in MetasBefore :
      IF b.Height < lastOp.height
      THEN GetBlockMeta(db, b.Height).nil
      ELSE GetBlockMeta(db, b.Height) = [nil |-> FALSE, meta |-> b]

\* the block meta of the pruning height itself is gone
PrunedAtHeight ==
  /\ Pruned
  /\ \E b \in MetasBefore : b.Height = lastOp.height
  /\ GetBlockMeta(db, lastOp.height).nil

\* what PruneBlockMeta does: the block metas up to and including the height
\* are deleted, the ones above it are kept
PruneUpTo ==
  Pruned =>
    \A b \in MetasBefore :
      IF b.Height <= lastOp.height
      THEN GetBlockMeta(db, b.Height).nil
      ELSE GetBlockMeta(db, b.Height) = [nil |-> FALSE, meta |-> b]

\* --------------------------------------------------------------- EventGas
MaxUpserts == 3

\* EventGas.UpsertGasPool: the amounts of the pool are added to the entry of
\* its asset, or the pool is appended when the asset has no entry
UpsertGasPool(pools, pool) ==
  LET found == {i \in 1..Len(pools) : pools[i].Asset = pool.Asset}
  IN  IF found # {}
      THEN LET i == CHOOSE x \in found : \A y \in found : x <= y
           IN  [pools EXCEPT ![i] = [@ EXCEPT !.RuneAmt = @ + pool.RuneAmt,
                                              !.AssetAmt = @ + pool.AssetAmt]]
      ELSE Append(pools, pool)

\* NewEventGas: no pools
GasInit ==
  /\ ChainIdle /\ YggIdle /\ SignerIdle /\ MemoIdle /\ StakeIdle /\ BtcIdle /\ GasIdle
  /\ StopIdle /\ TssIdle

\* a gas pool is upserted into the event
UpsertGasPoolCall(pool) ==
  /\ Len(upserted) < MaxUpserts
  /\ gas' = UpsertGasPool(gas, pool)
  /\ upserted' = Append(upserted, pool)
  /\ UNCHANGED <<chainVars, yggVars, signerVars, memoVars, stakeVars, keygenVars,
                 btcVars, stopVars, tssVars>>

GasNext ==
  \E a \in {"BNB.BNB", "BTC.BTC"}, amt \in {1, 2}, rune \in {0, 3}, n \in {1, 2} :
    UpsertGasPoolCall([Asset |-> a, AssetAmt |-> amt, RuneAmt |-> rune, Count |-> n])

GasSpec == GasInit /\ [][GasNext]_vars

\* the sum of a field over the pools of an asset
RECURSIVE SumOf(_, _, _)
SumOf(pools, asset, field) ==
  IF pools = <<>> THEN 0
  ELSE (IF Head(pools).Asset = asset THEN Head(pools)[field] ELSE 0)
         + SumOf(Tail(pools), asset, field)

UpsertedAssets == {upserted[i].Asset : i \in 1..Len(upserted)}

\* the event has one entry for each asset upserted and no other
OneEntryPerAsset ==
  /\ {gas[i].Asset : i \in 1..Len(gas)} = UpsertedAssets
  /\ \A i, j \in 1..Len(gas) : gas[i].Asset = gas[j].Asset => i = j

\* C33: after any sequence of UpsertGasPool calls the event holds exactly one
\* entry for each asset upserted, with the asset amount, the RUNE amount and
\* the transaction count each the sum of what was upserted for the asset
C33_GasPoolSums ==
  /\ OneEntryPerAsset
  /\ \A i \in 1..Len(gas) :
       /\ gas[i].AssetAmt = SumOf(upserted, gas[i].Asset, "AssetAmt")
       /\ gas[i].RuneAmt = SumOf(upserted, gas[i].Asset, "RuneAmt")
       /\ gas[i].Count = SumOf(upserted, gas[i].Asset, "Count")

\* an asset upserted twice has the count of its first pool only
CountNotSummed ==
  \E i \in 1..Len(gas) :
    /\ Len(SelectSeq(upserted, LAMBDA p : p.Asset = gas[i].Asset)) = 2
    /\ gas[i].Count < SumOf(upserted, gas[i].Asset, "Count")
    /\ gas[i].Count = SelectSeq(upserted, LAMBDA p : p.Asset = gas[i].Asset)[1].Count

\* what UpsertGasPool does: one entry for each asset, the two amounts summed
AmountsSummed ==
  /\ OneEntryPerAsset
  /\ \A i \in 1..Len(gas) :
       /\ gas[i].AssetAmt = SumOf(upserted, gas[i].Asset, "AssetAmt")
       /\ gas[i].RuneAmt = SumOf(upserted, gas[i].Asset, "RuneAmt")

\* ------------------------------------------- vault manager: further claims
\* the last EndBlock submitted migration outbounds
Migrating == lastOp.op = "EndBlock" /\ submitted # <<>>

\* C35: the memo the vault manager puts on a migration outbound is accepted
\* by ParseMemo, and what it parses to is a migrate memo
C35_MigrationMemoParses ==
  \A i \in 1..Len(submitted) :
    /\ ParseMemo(submitted[i].Memo).err = "nil"
    /\ IsType(ParseMemo(submitted[i].Memo).memo, "txMigrate")
    /\ ParseMemo(submitted[i].Memo).memo.Kind = "MigrateMemo"

\* a migration outbound was submitted with a memo ParseMemo refuses
MigrationMemoRefused ==
  /\ Migrating
  /\ \E i \in 1..Len(submitted) :
       ParseMemo(submitted[i].Memo).err = "not enough parameters"

\* what the memo of a migration outbound is: the action name alone, which
\* selects the migrate action and lacks the block height
MigrationMemoBare ==
  \A i \in 1..Len(submitted) :
    /\ stringToTxType(Split(submitted[i].Memo, ":")[1]) = [ok |-> TRUE, tx |-> "txMigrate"]
    /\ Len(Split(submitted[i].Memo, ":")) = 1

\* the Active asgard vaults of a store
ActiveAsgards(vs) == {pk \in DOMAIN vs : IsAsgard(vs, pk, "ActiveVault")}

\* no node is a member of two Active asgard vaults
ActiveDisjoint(vs) ==
  \A p, q \in ActiveAsgards(vs) :
    p # q => vs[p].Membership \cap vs[q].Membership = {}

\* C34: a successful RotateVault keeps the memberships of the Active asgard
\* vaults pairwise disjoint when they were so before it
C34_DisjointPreserved ==
  [][(lastOp'.op = "RotateVault" /\ nextKey' # nextKey /\ ActiveDisjoint(vaults))
       => ActiveDisjoint(vaults')]_vars

\* a rotation retired a vault it shares a member with and left two Active
\* asgard vaults, of disjoint memberships before and after
C34_Witness ==
  /\ lastOp.op = "RotateVault"
  /\ ActiveDisjoint(pre)
  /\ \E pk \in ActiveAsgards(pre) :
       /\ IsAsgard(vaults, pk, "RetiringVault")
       /\ pre[pk].Membership \cap vaults[lastOp.pk].Membership # {}
  /\ \E pk \in ActiveAsgards(vaults) : pk # lastOp.pk
  /\ ActiveDisjoint(vaults)

\* the Active asgard vaults never share a member
ActiveAlwaysDisjoint == ActiveDisjoint(vaults)

\* a Retiring asgard vault a genesis file may carry, with no Active one
RetiringOnlyVault(coins) ==
  [NewVault(0, "RetiringVault", "AsgardVault", GenesisKey)
     EXCEPT !.Membership = {1}, !.Coins = coins]

\* the chain starts from a store whose only asgard vault is Retiring, with
\* funds or without
RetiringOnlyInit ==
  /\ height = genesisBlockHeight
  /\ version \in Versions
  /\ migrateInterval \in MigrateIntervals
  /\ vaults \in {SetVault(NoVaults, RetiringOnlyVault(<<>>)),
                 SetVault(NoVaults, RetiringOnlyVault(
                   <<[Asset |-> "BTC.BTC", Amount |-> 10]>>))}
  /\ \E act \in SUBSET NodeKeys :
        nodes = [n \in NodeKeys |->
                   NodeAccount(n, IF n \in act THEN "Active" ELSE "Standby")]
  /\ keygens = NoKeygens
  /\ txout = <<>>
  /\ nextKey = 1
  /\ deposits = 0
  /\ submitted = <<>>
  /\ pre = vaults
  /\ lastOp = [op |-> "Init", height |-> 0, err |-> "nil", pk |-> 0]
  /\ YggIdle
  /\ SignerIdle
  /\ MemoIdle /\ StakeIdle /\ BtcIdle /\ GasIdle
  /\ StopIdle /\ TssIdle

RetiringOnlySpec == RetiringOnlyInit /\ [][Next]_vars

\* C36: with no Active asgard vault stored, an EndBlock after the genesis
\* block enqueues no outbound and changes no vault: a Retiring vault is
\* neither drained nor deleted
C36_NoActiveNoMove ==
  [][(/\ lastOp'.op = "EndBlock"
      /\ height' = height + 1
      /\ height > genesisBlockHeight
      /\ ActiveAsgards(vaults) = {})
       => /\ vaults' = vaults
          /\ txout' = txout
          /\ submitted' = <<>>]_vars

\* the last step was an EndBlock after genesis on a store without an Active
\* asgard vault
EndBlockWithoutActive ==
  /\ lastOp.op = "EndBlock"
  /\ lastOp.height > genesisBlockHeight
  /\ lastOp.err = "nil"
  /\ ActiveAsgards(pre) = {}

\* such an EndBlock at a migration block of a Retiring vault with funds,
\* under a version that has a TxOut store: the vault is as it was and nothing
\* is enqueued
C36_Witness ==
  /\ EndBlockWithoutActive
  /\ HasTxOutStore(version)
  /\ \E pk \in DOMAIN pre :
       /\ IsAsgard(pre, pk, "RetiringVault")
       /\ HasFunds(pre[pk])
       /\ IsMigrationBlock(lastOp.height, pre[pk], migrateInterval)
       /\ vaults[pk] = pre[pk]
  /\ txout = <<>>

\* such an EndBlock left a Retiring vault without funds in the store
EmptyRetiringKept ==
  /\ EndBlockWithoutActive
  /\ \E pk \in DOMAIN pre :
       /\ IsAsgard(pre, pk, "RetiringVault")
       /\ ~HasFunds(pre[pk])
       /\ pk \in DOMAIN vaults

\* ------------------------------------------ yggdrasil handler: fund frame
\* the step is a run of the handler on a message that adds funds
FundRun == msgs' # msgs /\ LastMsg'.AddFunds

\* C37: handling a yggdrasil fund creates, modifies and deletes no vault,
\* changes no node account and enqueues no outbound; all it writes through
\* the keeper is one Success event when the vault named is a Yggdrasil vault
\* or is not stored, and nothing when it is an asgard vault
C37_FundObserveOnly ==
  [][FundRun =>
       /\ UNCHANGED <<vaults, nodes, keygens, txout, slashes, refunds>>
       /\ IF lastOp'.err = "CodeOK" /\ OnYggdrasilVault(LastMsg'.PubKey)
          THEN /\ Len(events') = Len(events) + 1
               /\ SubSeq(events', 1, Len(events)) = events
               /\ events'[Len(events')].Status = "Success"
          ELSE events' = events]_vars

\* funds were handled for a vault that is not stored, after a fund for the
\* asgard vault: the one event is that of the second run
C37_Witness ==
  /\ YggRan("CodeOK")
  /\ Len(msgs) = 2
  /\ msgs[1].AddFunds /\ msgs[1].PubKey \in DOMAIN vaults
  /\ vaults[msgs[1].PubKey].Type = "AsgardVault"
  /\ msgs[2].AddFunds /\ msgs[2].PubKey \notin DOMAIN vaults
  /\ Len(events) = 1 /\ events[1].InTx = msgs[2].Tx /\ events[1].Status = "Success"
  /\ vaults = pre /\ txout = <<>> /\ slashes = <<>> /\ refunds = <<>>

\* ------------------------------------- signer: keygen and shutdown
\* the zero value of common.PubKey, which GenerateNewKey returns with an error
EmptyPubKey == 0

\* the keygen blocks of the chain: one with two groups of members
KeygenBlocks == {[Height |-> 7, Keygens |-> <<<<1, 2>>, <<2>>>>]}

\* the pubkey a ceremony of a group yields when it succeeds
CeremonyKey(keygen) == TssKey(MaxRotations + Len(keygen))

\* tssKeygen.GenerateNewKey: the pubkey of the group, or an error and the
\* empty pubkey
GenerateNewKey(keygen, ok) ==
  IF ok THEN [Secp256k1 |-> CeremonyKey(keygen), err |-> "nil"]
  ELSE [Secp256k1 |-> EmptyPubKey, err |-> "fail to generate new pubkey"]

\* a Stop that leaves the stop channel open
closeStopChan_Not == "open"

\* Stop, line 339: close(s.stopChan)
closeStopChan == "closed"

\* a signer whose Start has returned: the three goroutines wait in their
\* select, the local storage holds what the retries of Start could not send,
\* and the scanner has the other TxOuts and the keygen blocks
StopInit ==
  /\ ChainIdle /\ YggIdle /\ MemoIdle /\ StakeIdle /\ BtcIdle /\ GasIdle
  /\ StopIdle
  /\ \E left \in {{t \in SignerTxOuts : t.Height \in hs} :
                     hs \in {{<<"x">>}, {<<"5">>, <<"x">>}}} :
        /\ storage = [k \in {t.Height : t \in left} |->
                        [TxOut |-> CHOOSE t \in left : t.Height = k,
                         Status |-> IF k = <<"x">> THEN "Failed" ELSE "Processing"]]
        /\ pending = SignerTxOuts \ left
  /\ sent = [k \in UNION {{<<t.Height, i>> : i \in 1..Len(t.TxArray)} : t \in SignerTxOuts}
               |-> 0]
  /\ ch = <<>>
  /\ failures = 0
  /\ worker = [w \in {"main", "retry"} |->
                 [pc |-> IF w = "main" THEN "started" ELSE "wait", round |-> 2,
                  todo |-> {}, cur |-> NoTxOut]]
  /\ proc = [pc |-> "recv", tx |-> NoTxOut]
  /\ keygenCh = <<>>
  /\ kproc = [pc |-> "recv", todo |-> <<>>, delivered |-> {}, last |-> "none"]
  /\ added = {}

\* the started block scanner puts the keygens of a block on the channel
DeliverKeygens(kgs) ==
  /\ kproc.pc # "off"
  /\ kgs \notin kproc.delivered
  /\ keygenCh' = Append(keygenCh, kgs)
  /\ kproc' = [kproc EXCEPT !.delivered = @ \cup {kgs}]
  /\ UNCHANGED <<chainVars, yggVars, signerVars, memoVars, stakeVars, keygenVars,
                 btcVars, gasVars, stopVars, added>>

\* Signer.processKeygen: the keygens of a block are received; a ceremony
\* runs for each group and what it returned is added to the pubkey manager;
\* then the keygens are removed from the local storage
processKeygen ==
  /\ \/ /\ kproc.pc = "recv"
        /\ keygenCh # <<>>
        /\ keygenCh' = Tail(keygenCh)
        /\ kproc' = [kproc EXCEPT !.pc = "keygen", !.todo = Head(keygenCh).Keygens]
        /\ UNCHANGED added
     \/ /\ kproc.pc = "keygen"
        /\ kproc.todo # <<>>
        /\ \E ok \in BOOLEAN :
             LET pubKey == GenerateNewKey(Head(kproc.todo), ok)
             IN  /\ added' = added \cup {pubKey.Secp256k1}
                 /\ kproc' = [kproc EXCEPT !.todo = Tail(@), !.last = pubKey.err]
        /\ UNCHANGED keygenCh
     \/ /\ kproc.pc = "keygen"
        /\ kproc.todo = <<>>
        /\ kproc' = [kproc EXCEPT !.pc = "recv"]
        /\ UNCHANGED <<keygenCh, added>>
  /\ UNCHANGED <<chainVars, yggVars, signerVars, memoVars, stakeVars, keygenVars,
                 btcVars, gasVars, stopVars>>

\* Signer.Stop: the stop channel is closed; Stop then waits for the three
\* goroutines, and returns after they did
Stop ==
  /\ \/ /\ stopper = "idle"
        /\ worker["main"].pc = "started"
        /\ stopChan' = closeStopChan
        /\ stopper' = "waiting"
     \/ /\ stopper = "waiting"
        /\ proc.pc = "returned" /\ worker["retry"].pc = "returned"
        /\ kproc.pc = "returned"
        /\ stopper' = "stopped"
        /\ UNCHANGED stopChan
  /\ UNCHANGED <<chainVars, yggVars, signerVars, memoVars, stakeVars, keygenVars,
                 btcVars, gasVars, observed, tssVars>>

\* processTxnOut, lines 198-200: the select finds the stop channel closed
processTxnOutStop ==
  /\ proc.pc = "recv"
  /\ stopChan = "closed"
  /\ proc' = [pc |-> "returned", tx |-> NoTxOut]
  /\ observed' = observed \cup {"processTxnOut"}
  /\ UNCHANGED <<storage, sent, ch, failures, pending, worker>>
  /\ UNCHANGED <<chainVars, yggVars, memoVars, stakeVars, keygenVars,
                 btcVars, gasVars, stopChan, stopper, tssVars>>

\* retryFailedTxOutProcessor, lines 175-177: the select finds the stop
\* channel closed
retryFailedTxOutProcessorStop ==
  /\ worker["retry"].pc = "wait"
  /\ stopChan = "closed"
  /\ worker' = [worker EXCEPT !["retry"].pc = "returned"]
  /\ observed' = observed \cup {"retry"}
  /\ UNCHANGED <<storage, sent, ch, failures, pending, proc>>
  /\ UNCHANGED <<chainVars, yggVars, memoVars, stakeVars, keygenVars,
                 btcVars, gasVars, stopChan, stopper, tssVars>>

\* retryTxOut, lines 138-140: before an item is taken the stop channel is
\* found closed, and retryTxOut returns to the retry processor
retryTxOutStop ==
  /\ worker["retry"].pc = "retryTxOut"
  /\ worker["retry"].cur = NoTxOut /\ worker["retry"].todo # {}
  /\ stopChan = "closed"
  /\ worker' = [worker EXCEPT !["retry"].pc = "wait", !["retry"].todo = {}]
  /\ observed' = observed \cup {"retry"}
  /\ UNCHANGED <<storage, sent, ch, failures, pending, proc>>
  /\ UNCHANGED <<chainVars, yggVars, memoVars, stakeVars, keygenVars,
                 btcVars, gasVars, stopChan, stopper, tssVars>>

\* retryTxOut of the retry processor: an item is taken only while the stop
\* channel is open, the select having a default case
retryTxOutOpen ==
  /\ stopChan = "open" \/ worker["retry"].cur # NoTxOut \/ worker["retry"].todo = {}
  /\ retryTxOut("retry")

\* processKeygen, lines 237-239: the select finds the stop channel closed
processKeygenStop ==
  /\ kproc.pc = "recv"
  /\ stopChan = "closed"
  /\ kproc' = [kproc EXCEPT !.pc = "returned"]
  /\ observed' = observed \cup {"processKeygen"}
  /\ UNCHANGED <<chainVars, yggVars, signerVars, memoVars, stakeVars, keygenVars,
                 btcVars, gasVars, stopChan, stopper, keygenCh, added>>

StopNext ==
  \/ retryTxOutOpen
  \/ retryFailedTxOutProcessor
  \/ \E txOut \in SignerTxOuts : Deliver(txOut)
  \/ processTxnOut
  \/ \E kgs \in KeygenBlocks : DeliverKeygens(kgs)
  \/ processKeygen
  \/ Stop
  \/ processTxnOutStop
  \/ retryFailedTxOutProcessorStop
  \/ retryTxOutStop
  \/ processKeygenStop

StopSpec == StopInit /\ [][StopNext]_vars

\* the goroutines keep running, a call that was made returns, and a select
\* that finds the stop channel closed again and again takes that case in
\* the end
StopFairSpec ==
  /\ StopSpec
  /\ WF_vars(retryTxOutOpen)
  /\ WF_vars(processTxnOut)
  /\ WF_vars(processKeygen)
  /\ WF_vars(Stop)
  /\ SF_vars(processTxnOutStop)
  /\ SF_vars(retryFailedTxOutProcessorStop)
  /\ WF_vars(retryTxOutStop)
  /\ SF_vars(processKeygenStop)

\* C38: processKeygen adds a pubkey to the pubkey manager only when the
\* keygen ceremony that was to produce it succeeded
C38_AddOnlyOnSuccess ==
  [][added' # added => kproc'.last = "nil"]_vars

\* a ceremony failed and the empty pubkey is in the pubkey manager
EmptyPubKeyAdded ==
  /\ kproc.last = "fail to generate new pubkey"
  /\ EmptyPubKey \in added

\* what processKeygen does: whatever GenerateNewKey returned is added, the
\* pubkey of the group after a success and the empty pubkey after a failure
AddedWhatWasReturned ==
  [][added' # added =>
       \E ok \in BOOLEAN :
         LET pubKey == GenerateNewKey(Head(kproc.todo), ok)
         IN  /\ kproc'.last = pubKey.err
             /\ added' = added \cup {pubKey.Secp256k1}]_vars

\* the three goroutines have returned and so has Stop
AllReturned ==
  /\ proc.pc = "returned"
  /\ worker["retry"].pc = "returned"
  /\ kproc.pc = "returned"
  /\ stopper = "stopped"

\* the step starts the processing of a TxOut in a goroutine
StartsProcessing(g) ==
  \/ g = "processTxnOut" /\ proc.pc = "recv" /\ proc'.pc = "sign"
  \/ /\ g = "retry"
     /\ worker["retry"].pc = "retryTxOut"
     /\ worker["retry"].cur = NoTxOut
     /\ worker'["retry"].todo # worker["retry"].todo
     /\ worker'["retry"].pc = "retryTxOut"

\* C39: once Stop was called on a started signer, processTxnOut, the retry
\* processor and processKeygen each return and then Stop returns, and a
\* goroutine that has seen the stop channel closed starts no processing of
\* a TxOut any more
C39_Shutdown ==
  /\ (stopper = "waiting") ~> AllReturned
  /\ [][\A g \in observed : ~StartsProcessing(g)]_vars

\* Stop has returned after the retry processor saw the stop channel closed
\* inside retryTxOut, with a TxOut left to retry, and processTxnOut had sent
\* an item
C39_Witness ==
  /\ AllReturned
  /\ observed = {"processTxnOut", "retry", "processKeygen"}
  /\ storage # <<>>
  /\ \E k \in DOMAIN sent : sent[k] > 0
====
